---- MODULE Spec2Model ----
(***************************************************************************)
(* A model of the connection state machine and packet framer of            *)
(* rust-mysql-simple (src/conn.rs): MyConn, its MyStream implementation    *)
(* (read_packet, write_packet, the command sub-protocols) and QueryResult. *)
(*                                                                         *)
(* Byte strings are kept as sequences of slices [id, off, len] of named    *)
(* contents, so that payloads of 2^24 bytes and more stay small values     *)
(* while splitting, concatenating and comparing them stays exact.          *)
(***************************************************************************)
EXTENDS Integers, Sequences, FiniteSets, TLC

VARIABLES
    conn,     \* the MyConn object: its fields, the transport included
    result,   \* the live QueryResult borrowing the connection, or NoResult
    stmt,     \* the Stmt the caller holds from its last prepare, or NoStmt
    srv,      \* the peer: the server's side of the exchange
    obs,      \* observations of the run (history), read by the properties only
    last,     \* the operation that ran last and what it returned
    pc        \* life cycle of the MyConn value

vars == <<conn, result, stmt, srv, obs, last, pc>>

(***************************************************************************)
(* Constants of the protocol.                                              *)
(***************************************************************************)
MAX_PAYLOAD_LEN == 16777215

COM_QUERY == 3
COM_STMT_PREPARE == 22
COM_STMT_EXECUTE == 23
COM_STMT_SEND_LONG_DATA == 24

\* a counter that stops at 255
U8_saturating(x) == IF x > 255 THEN 255 ELSE x

\* u8 arithmetic: seq_id is a u8 and `self.seq_id += 1` wraps.
U8(x) == x % 256

Min(a, b) == IF a < b THEN a ELSE b

(***************************************************************************)
(* Byte strings (Vec<u8>, &[u8]).                                          *)
(***************************************************************************)
Slice(id, off, len) == [id |-> id, off |-> off, len |-> len]

\* the whole content `id`, which is len bytes long
Whole(id, len) == IF len = 0 THEN <<>> ELSE <<Slice(id, 0, len)>>

RECURSIVE BLen(_)
BLen(b) == IF b = <<>> THEN 0 ELSE Head(b).len + BLen(Tail(b))

\* a ++ b
Cat(a, b) ==
    IF a = <<>> THEN b
    ELSE IF b = <<>> THEN a
    ELSE LET x == a[Len(a)]
             y == Head(b)
         IN IF x.id = y.id /\ x.off + x.len = y.off
            THEN SubSeq(a, 1, Len(a) - 1) \o <<[x EXCEPT !.len = @ + y.len]>> \o Tail(b)
            ELSE a \o b

\* the first n bytes of b (all of b when it is shorter)
RECURSIVE TakeB(_, _)
TakeB(b, n) ==
    IF n = 0 \/ b = <<>> THEN <<>>
    ELSE IF Head(b).len <= n THEN <<Head(b)>> \o TakeB(Tail(b), n - Head(b).len)
    ELSE <<[Head(b) EXCEPT !.len = n]>>

\* b without its first n bytes
RECURSIVE DropB(_, _)
DropB(b, n) ==
    IF n = 0 \/ b = <<>> THEN b
    ELSE IF Head(b).len <= n THEN DropB(Tail(b), n - Head(b).len)
    ELSE <<[Head(b) EXCEPT !.off = @ + n, !.len = @ - n]>> \o Tail(b)

\* data.chunks(n)
RECURSIVE Chunks(_, _)
Chunks(data, n) ==
    IF BLen(data) = 0 THEN <<>>
    ELSE IF BLen(data) <= n THEN <<data>>
    ELSE <<TakeB(data, n)>> \o Chunks(DropB(data, n), n)

(***************************************************************************)
(* The transport (MyConn.stream): the bytes waiting to be read, as frame   *)
(* headers and frame payloads, the frames written so far, and whether the  *)
(* peer is still there.                                                    *)
(***************************************************************************)
Hdr(len, seq) == [t |-> "hdr", len |-> len, seq |-> seq, b |-> <<>>]
Pld(b) == [t |-> "pld", len |-> BLen(b), seq |-> 0, b |-> b]

Frame(len, seq, body) == [len |-> len, seq |-> seq, body |-> body]

\* a frame as the bytes the reader meets: 4 header bytes, then the payload
FrameItems(f) == IF f.len = 0 THEN <<Hdr(f.len, f.seq)>> ELSE <<Hdr(f.len, f.seq), Pld(f.body)>>

RECURSIVE WireItems(_)
WireItems(fs) == IF fs = <<>> THEN <<>> ELSE FrameItems(Head(fs)) \o WireItems(Tail(fs))

NewStream == [rd |-> <<>>, wr |-> <<>>, up |-> TRUE]

(***************************************************************************)
(* Results: Ok(v) or Err(kind).                                            *)
(***************************************************************************)
Ok(v) == [ok |-> TRUE, err |-> "", v |-> v]
Err(kind) == [ok |-> FALSE, err |-> kind, v |-> <<>>]

Ret(w, r) == [w |-> w, r |-> r]

(***************************************************************************)
(* The world an operation runs in: w = [conn, srv, obs].  Every operation  *)
(* is an operator from a world (and its arguments) to Ret(world, result).  *)
(***************************************************************************)
\* try!(a): an error is returned at once, otherwise the rest K goes on from a
Try(a, K(_)) == IF ~a.r.ok THEN a ELSE K(a)

\* try_io!(p) on a parser's result: an error is returned at once, otherwise
\* the rest K goes on from the value parsed
TryIo(w, p, K(_)) == IF ~p.ok THEN Ret(w, p) ELSE K(p.v)

\* let v = ...; the rest K goes on from v
With(v, K(_)) == K(v)

SetSeq(w, s) == [w EXCEPT !.conn.seq_id = s]

\* self.stream.write(buf) of one whole frame; the peer, which counts the
\* frames it receives, will number its next frame after this one
Send(w, f) == [w EXCEPT !.conn.stream.wr = Append(@, f), !.srv.seq = U8(f.seq + 1)]

\* The 4 header bytes of a frame: read_le_uint_n(3), then read_u8().  With
\* nothing left to read the peer has gone and the transport reports an error.
\* When the stream is not at a frame boundary (a payload was left unread) the
\* next 4 payload bytes are taken as the header; the contents drawn here are
\* such that the byte taken as sequence id is no id the client expects.
read_header(w) ==
    LET st == w.conn.stream IN
    IF ~st.up \/ st.rd = <<>>
    THEN [ok |-> FALSE, len |-> 0, seq |-> 0, w |-> [w EXCEPT !.conn.stream.up = FALSE]]
    ELSE LET it == Head(st.rd) IN
         IF it.t = "hdr"
         THEN [ok |-> TRUE, len |-> it.len, seq |-> it.seq,
               w |-> [w EXCEPT !.conn.stream.rd = Tail(@)]]
         ELSE [ok |-> TRUE, len |-> 0, seq |-> 0 - 1,
               w |-> [w EXCEPT !.conn.stream.rd =
                         IF it.len > 4 THEN <<Pld(DropB(it.b, 4))>> \o Tail(@) ELSE Tail(@)]]

\* self.push_exact(&mut output, n): exactly n payload bytes, or an error
push_exact(w, n) ==
    LET st == w.conn.stream IN
    IF ~st.up \/ st.rd = <<>>
    THEN [ok |-> FALSE, b |-> <<>>, w |-> [w EXCEPT !.conn.stream.up = FALSE]]
    ELSE LET it == Head(st.rd) IN
         IF it.t = "pld" /\ it.len >= n
         THEN [ok |-> TRUE, b |-> TakeB(it.b, n),
               w |-> [w EXCEPT !.conn.stream.rd =
                         IF it.len > n THEN <<Pld(DropB(it.b, n))>> \o Tail(@) ELSE Tail(@)]]
         ELSE [ok |-> FALSE, b |-> <<>>, w |-> [w EXCEPT !.conn.stream.up = FALSE]]

\* what the run records about a read_packet that ends: how it ended, the
\* payload it delivered, the fields of an OK packet it delivered, and that
\* one more read_packet of the call has ended
NoteRead(w, res, pld) ==
    [w EXCEPT !.obs.read_res = res,
              !.obs.nread = @ + 1,
              !.obs.got = IF res = "ok" THEN pld ELSE <<>>,
              !.obs.failed = @ \/ res # "ok",
              !.obs.lastOk = IF res = "ok" /\ Len(pld) = 1 /\ pld[1].off = 0
                                /\ pld[1].id.kind = "ok" /\ pld[1].len = pld[1].id.len
                             THEN [affected_rows |-> pld[1].id.affected_rows,
                                   last_insert_id |-> pld[1].id.last_insert_id]
                             ELSE @]

\* what the run records about a frame header just read
NoteHdr(w, h) ==
    [h.w EXCEPT !.obs.hdr = [len |-> h.len, seq |-> h.seq, expect |-> w.conn.seq_id,
                             rest |-> h.w.conn.stream.rd]]

\* the run records the id of a frame that read_packet accepted, and how
\* many frames the call had written by then
NoteAccept(w, h) ==
    [w EXCEPT !.obs.ids = Append(@, [seq |-> h.seq, at |-> Len(w.conn.stream.wr)])]

\* a comparison that also lets through a frame numbered ahead of seq_id
InSyncOrAhead(seq_id, expect) == seq_id >= expect

\* the point where read_packet compares the header's id with seq_id
InSync(seq_id, expect) == seq_id = expect

\* the seq_id a frame that was accepted leaves behind
Advance(seq_id) == U8(seq_id + 1)

\* a test that takes a frame of exactly MAX_PAYLOAD_LEN bytes for the last
MoreFramesAbove(payload_len) == payload_len > MAX_PAYLOAD_LEN

\* whether another frame of the same payload follows a frame of this length
MoreFrames(payload_len) == payload_len >= MAX_PAYLOAD_LEN

RECURSIVE read_loop(_, _)
read_loop(w, output) ==
    With(read_header(w), LAMBDA h :
    IF ~h.ok THEN Ret(NoteRead(h.w, "IoError", <<>>), Err("IoError"))
    ELSE IF ~InSync(h.seq, w.conn.seq_id)
    THEN Ret(NoteRead(NoteHdr(w, h), "OutOfSync", <<>>), Err("OutOfSync"))
    ELSE With(SetSeq(NoteAccept(NoteHdr(w, h), h), Advance(w.conn.seq_id)), LAMBDA w1 :
         IF MoreFrames(h.len)
         THEN With(push_exact(w1, MAX_PAYLOAD_LEN), LAMBDA p :
              IF ~p.ok THEN Ret(NoteRead(p.w, "IoError", <<>>), Err("IoError"))
              ELSE read_loop(p.w, Cat(output, p.b)))
         ELSE IF h.len = 0
         THEN Ret(NoteRead(w1, "ok", output), Ok(output))
         ELSE With(push_exact(w1, h.len), LAMBDA p :
              IF ~p.ok THEN Ret(NoteRead(p.w, "IoError", <<>>), Err("IoError"))
              ELSE Ret(NoteRead(p.w, "ok", Cat(output, p.b)), Ok(Cat(output, p.b))))))

read_packet(w) == read_loop(w, <<>>)

\* the test that makes write_packet refuse a payload
TooLarge(data_len, max_allowed_packet) ==
    data_len > max_allowed_packet /\ max_allowed_packet < MAX_PAYLOAD_LEN

\* a write_packet that leaves the empty frame out
write_empty_skipped(w) == Ret(w, Ok(<<>>))

\* the frame that ends a payload whose last chunk was full (or that was empty)
write_empty(w) ==
    IF ~w.conn.stream.up THEN Ret(w, Err("IoError"))
    ELSE Ret(SetSeq(Send(w, Frame(0, w.conn.seq_id, <<>>)), U8(w.conn.seq_id + 1)), Ok(<<>>))

\* the body of `for chunk in data.chunks(MAX_PAYLOAD_LEN)` and what follows it
RECURSIVE write_chunks(_, _, _)
write_chunks(w, chunks, last_was_max) ==
    IF chunks = <<>>
    THEN IF last_was_max THEN write_empty(w) ELSE Ret(w, Ok(<<>>))
    ELSE LET chunk == Head(chunks)
             chunk_len == BLen(chunk)
             full_chunk == Frame(chunk_len % 16777216, w.conn.seq_id, chunk)
             w1 == SetSeq(w, U8(w.conn.seq_id + 1))
         IN IF ~w.conn.stream.up THEN Ret(w1, Err("IoError"))
            ELSE write_chunks(Send(w1, full_chunk), Tail(chunks), chunk_len = MAX_PAYLOAD_LEN)

\* a write_packet that counts the packet it refuses
write_packet_counts_refused(w, data) ==
    IF TooLarge(BLen(data), w.conn.max_allowed_packet)
    THEN Ret([w EXCEPT !.conn.seq_id = U8(@ + 1)], Err("PacketTooLarge"))
    ELSE IF BLen(data) = 0 THEN write_empty(w)
    ELSE write_chunks(w, Chunks(data, MAX_PAYLOAD_LEN), FALSE)

write_packet(w, data) ==
    IF TooLarge(BLen(data), w.conn.max_allowed_packet)
    THEN Ret(w, Err("PacketTooLarge"))
    ELSE IF BLen(data) = 0 THEN write_empty(w)
    ELSE write_chunks(w, Chunks(data, MAX_PAYLOAD_LEN), FALSE)

(***************************************************************************)
(* MyConn as MyConn::new builds it, before connect().                      *)
(***************************************************************************)
DefaultOpts == [user |-> 4, pass |-> 8, db_name |-> 0, prefer_socket |-> FALSE]

NewConn ==
    [opts |-> DefaultOpts,
     stream |-> NewStream,
     seq_id |-> 0,
     capability_flags |-> {},
     status_flags |-> 0,
     connection_id |-> 0,
     character_set |-> 0,
     affected_rows |-> 0,
     last_insert_id |-> 0,
     last_command |-> 0,
     max_allowed_packet |-> MAX_PAYLOAD_LEN,
     connected |-> FALSE]

NoResult == [live |-> FALSE, columns |-> 0, eof |-> FALSE, is_bin |-> FALSE]

NoStmt == [statement_id |-> 0, num_columns |-> 0, num_params |-> 0, prepared |-> FALSE,
           params |-> <<>>, columns |-> <<>>]

NoHdr == [len |-> 0, seq |-> 0, expect |-> 0, rest |-> <<>>]
NoOk == [affected_rows |-> 0, last_insert_id |-> 0]

NewObs ==
    [read_res |-> "none", got |-> <<>>, failed |-> FALSE, lastOk |-> NoOk, hdr |-> NoHdr,
     cmds |-> <<>>, ncmd |-> 0, ids |-> <<>>, after_err |-> FALSE, nread |-> 0,
     file |-> [state |-> "none", wr_open |-> 0, wr_close |-> 0, rd_close |-> 0],
     after_refused |-> FALSE]

NewSrv == [seq |-> 0, phase |-> "idle", sent |-> 0]

\* bounds of the runs explored
MaxCmds == 2
MaxRows == 2

World == [conn |-> conn, srv |-> srv, obs |-> obs]

Done(op, r) == [op |-> op, r |-> r, data |-> <<>>, seq0 |-> 0, seq1 |-> 0]

(***************************************************************************)
(* The framer on its own: a payload is written with write_packet, the      *)
(* frames are handed to a reader that starts from the writer's first       *)
(* seq_id, and read_packet reads them back.                                *)
(***************************************************************************)
\* payload lengths tried (section 8 of the specification)
FramerLens ==
    {0, 1, MAX_PAYLOAD_LEN - 1, MAX_PAYLOAD_LEN, MAX_PAYLOAD_LEN + 1, 2 * MAX_PAYLOAD_LEN}

\* seq_id the writer starts from
FramerSeqs == {0, 1, 127, 253, 254, 255}

\* max_allowed_packet of the connection: a small limit, limits around
\* MAX_PAYLOAD_LEN, and a limit above it
FramerLimits == {1, 1024, MAX_PAYLOAD_LEN - 1, MAX_PAYLOAD_LEN, MAX_PAYLOAD_LEN + 1,
                 2 * MAX_PAYLOAD_LEN}

InitFramer ==
    /\ \E s \in FramerSeqs, m \in FramerLimits :
          conn = [NewConn EXCEPT !.seq_id = s, !.max_allowed_packet = m, !.connected = TRUE]
    /\ result = NoResult
    /\ stmt = NoStmt
    /\ srv = NewSrv
    /\ obs = NewObs
    /\ last = Done("init", Ok(<<>>))
    /\ pc = "framer"

FrWrite ==
    /\ pc = "framer"
    /\ \E L \in FramerLens :
          \E x \in {write_packet(World, Whole([kind |-> "payload"], L))} :
             /\ conn' = x.w.conn
             /\ srv' = x.w.srv
             /\ obs' = x.w.obs
             /\ last' = [op |-> "write_packet", r |-> x.r,
                         data |-> Whole([kind |-> "payload"], L),
                         seq0 |-> conn.seq_id, seq1 |-> x.w.conn.seq_id]
    /\ pc' = "written"
    /\ UNCHANGED <<result, stmt>>

\* the frames written reach a reader whose seq_id is the writer's first
FrHandOver ==
    /\ pc = "written"
    /\ last.r.ok
    /\ conn' = [conn EXCEPT !.stream.rd = WireItems(conn.stream.wr), !.seq_id = last.seq0]
    /\ pc' = "handed"
    /\ UNCHANGED <<result, stmt, srv, obs, last>>

FrRead ==
    /\ pc = "handed"
    /\ \E x \in {read_packet(World)} :
          /\ conn' = x.w.conn
          /\ obs' = x.w.obs
          /\ last' = [last EXCEPT !.op = "read_packet", !.r = x.r]
    /\ pc' = "read"
    /\ UNCHANGED <<result, stmt, srv>>

NextFramer == FrWrite \/ FrHandOver \/ FrRead

SpecFramer == InitFramer /\ [][NextFramer]_vars

(***************************************************************************)
(* Packets of the server.  A content is a record: its kind, its first      *)
(* byte, its length, how its bytes fare when decoded as a text row and as  *)
(* a binary row, and the fields the packet parsers read from it.           *)
(***************************************************************************)
Pkt(kind, first, len, text, bin) ==
    [kind |-> kind, first |-> first, len |-> len, text |-> text, bin |-> bin]

PktOk(ar, li, sf) ==
    Pkt("ok", 0, 7, "ok", "err") @@
    [affected_rows |-> ar, last_insert_id |-> li, status_flags |-> sf]

\* an ERR packet; as is how the message bytes happen to decode as a row
PktErr(len, as) == Pkt("err", 255, len, as, as)

PktEof(sf) == Pkt("eof", 254, 5, "err", "err") @@ [status_flags |-> sf]

PktInfile == Pkt("infile", 251, 9, "ok", "err")

PktColCount(n) == Pkt("colcount", n, 1, "ok", "err")

PktColumn(i) == Pkt("column", 3, 40, "ok", "err") @@ [column |-> i]

\* a row packet of the text or of the binary dialect
PktRow(first, len, text, bin, i) == Pkt("row", first, len, text, bin) @@ [row |-> i]

PktStmt(id, ncols, nparams) ==
    Pkt("stmt", 0, 12, "ok", "ok") @@
    [statement_id |-> id, num_columns |-> ncols, num_params |-> nparams]

PktHandshake(version, caps) ==
    Pkt("handshake", version, 78, "ok", "err") @@
    [protocol_version |-> version, capability_flags |-> caps, status_flags |-> 2,
     connection_id |-> 7, character_set |-> 8]

\* pld holds one whole content (what read_packet returns for a packet that
\* the server framed)
IsWhole(pld) == Len(pld) = 1 /\ pld[1].off = 0 /\ pld[1].len = pld[1].id.len

IsKind(pld, kind) == IsWhole(pld) /\ pld[1].id.kind = kind

\* *pld.get(0); the caller has checked that pld is not empty
first_byte(pld) == IF pld[1].off = 0 THEN pld[1].id.first ELSE 1

\* OkPacket::from_payload
OkPacket_from_payload(pld) ==
    IF IsKind(pld, "ok")
    THEN Ok([affected_rows |-> pld[1].id.affected_rows,
             last_insert_id |-> pld[1].id.last_insert_id,
             status_flags |-> pld[1].id.status_flags])
    ELSE IF BLen(pld) >= 7
    THEN Ok([affected_rows |-> 0 - 1, last_insert_id |-> 0 - 1, status_flags |-> 0 - 1])
    ELSE Err("IoError")

\* a parser that takes no payload for an ERR packet
ErrPacket_unreadable(pld) == Err("IoError")

\* ErrPacket::from_payload
ErrPacket_from_payload(pld) ==
    IF BLen(pld) >= 9 THEN Ok(pld) ELSE Err("IoError")

\* EOFPacket::from_payload
EOFPacket_from_payload(pld) ==
    IF IsKind(pld, "eof") THEN Ok([status_flags |-> pld[1].id.status_flags])
    ELSE IF BLen(pld) >= 5 THEN Ok([status_flags |-> 0 - 1])
    ELSE Err("IoError")

\* Stmt::from_payload
Stmt_from_payload(pld) ==
    IF IsKind(pld, "stmt")
    THEN Ok([statement_id |-> pld[1].id.statement_id,
             num_columns |-> pld[1].id.num_columns,
             num_params |-> pld[1].id.num_params,
             prepared |-> TRUE])
    ELSE Err("IoError")

\* Column::from_payload
Column_from_payload(pld) ==
    IF IsKind(pld, "column") THEN Ok(pld[1].id) ELSE Err("IoError")

\* a parser that reports protocol version 10 and PROTOCOL_41 whatever the
\* packet says
HandshakePacket_as_supported(pld) ==
    IF IsKind(pld, "handshake")
    THEN Ok([pld[1].id EXCEPT !.protocol_version = 10,
                              !.capability_flags = @ \cup {"PROTOCOL_41"}])
    ELSE Err("IoError")

\* HandshakePacket::from_payload
HandshakePacket_from_payload(pld) ==
    IF IsKind(pld, "handshake") THEN Ok(pld[1].id) ELSE Err("IoError")

\* Value::from_payload: the values of a text row
Value_from_payload(pld) ==
    IF IsWhole(pld) /\ pld[1].id.text = "ok" THEN Ok(pld[1].id) ELSE Err("IoError")

\* Value::from_bin_payload: the values of a binary row; indexing past the
\* end of a payload that is too short for the bitmap ends the task
Value_from_bin_payload(pld) ==
    IF IsWhole(pld) /\ pld[1].id.bin = "ok" THEN Ok(pld[1].id)
    ELSE IF IsWhole(pld) /\ pld[1].id.bin = "panic" THEN Err("panic")
    ELSE Err("IoError")

(***************************************************************************)
(* The server's side.  It frames each packet, numbering the frames from    *)
(* its own count (skew 1: it skips an id), and writes them to the stream.  *)
(***************************************************************************)
RECURSIVE SrvFrames(_, _)
SrvFrames(data, seq) ==
    IF BLen(data) < MAX_PAYLOAD_LEN THEN <<Frame(BLen(data), seq, data)>>
    ELSE <<Frame(MAX_PAYLOAD_LEN, seq, TakeB(data, MAX_PAYLOAD_LEN))>>
         \o SrvFrames(DropB(data, MAX_PAYLOAD_LEN), U8(seq + 1))

\* an element of a script: a packet, and whether its ids are skewed
Sent(p) == [p |-> p, skew |-> 0]
Skewed(p) == [p |-> p, skew |-> 1]

ServeOne(w, e) ==
    LET fs == SrvFrames(Whole(e.p, e.p.len), U8(w.srv.seq + e.skew))
    IN [w EXCEPT !.conn.stream.rd = @ \o WireItems(fs),
                 !.srv.seq = U8(fs[Len(fs)].seq + 1)]

RECURSIVE Serve(_, _)
Serve(w, script) ==
    IF script = <<>> \/ ~w.conn.stream.up THEN w
    ELSE Serve(ServeOne(w, Head(script)), Tail(script))

(***************************************************************************)
(* MyStream for MyConn: the handlers.                                      *)
(***************************************************************************)
\* a handle_ok that forgets last_insert_id
handle_ok_rows_only(w, op) ==
    [w EXCEPT !.conn.affected_rows = op.affected_rows,
              !.conn.status_flags = op.status_flags]

handle_ok(w, op) ==
    [w EXCEPT !.conn.affected_rows = op.affected_rows,
              !.conn.last_insert_id = op.last_insert_id,
              !.conn.status_flags = op.status_flags]

handle_eof(w, eof) == [w EXCEPT !.conn.status_flags = eof.status_flags]

handle_handshake(w, hp) ==
    [w EXCEPT !.conn.capability_flags = hp.capability_flags,
              !.conn.status_flags = hp.status_flags,
              !.conn.connection_id = hp.connection_id,
              !.conn.character_set = hp.character_set]

\* the byte vec!(cmd) that opens a command payload
CmdByte(cmd) == Whole([kind |-> "command", first |-> cmd, len |-> 1], 1)

\* the run records which of the frames written belong to a command; the ids
\* accepted from here on are those of the response to this command
NoteCmd(w0, x, cmd) ==
    [x EXCEPT !.w.obs.cmds =
        Append(@, [cmd |-> cmd, from |-> Len(w0.conn.stream.wr) + 1,
                   to |-> Len(x.w.conn.stream.wr), reads |-> w0.obs.nread]),
              !.w.obs.ids = <<>>]

\* a write_command_data that goes on from the seq_id it finds
write_command_data_keeps_seq(w, cmd, buf) ==
    LET w1 == [w EXCEPT !.conn.last_command = cmd]
    IN NoteCmd(w, write_packet(w1, Cat(CmdByte(cmd), buf)), cmd)

write_command_data(w, cmd, buf) ==
    LET w1 == [w EXCEPT !.conn.seq_id = 0, !.conn.last_command = cmd]
    IN NoteCmd(w, write_packet(w1, Cat(CmdByte(cmd), buf)), cmd)

\* reader.read_lenenc_int() on the first packet of a result-set response
column_count_of(pld) ==
    LET b == first_byte(pld) IN
    IF b < 251 THEN Ok(b)
    ELSE IF b = 254 /\ BLen(pld) >= 9 THEN Ok(BLen(pld) - 9)
    ELSE Err("IoError")

\* while { i += 1; i < column_count } { read_packet; Column::from_payload }
RECURSIVE read_columns(_, _, _)
read_columns(w, n, columns) ==
    IF n = 0 THEN Ret(w, Ok(columns))
    ELSE Try(read_packet(w), LAMBDA a :
         TryIo(a.w, Column_from_payload(a.r.v), LAMBDA col :
         read_columns(a.w, n - 1, Append(columns, col))))

\* the last arm of the dispatch in query and execute: the column
\* definitions, the EOF after them, and the QueryResult
read_result_set(w, pld, is_bin) ==
    TryIo(w, column_count_of(pld), LAMBDA column_count :
    Try(read_columns(w, column_count, <<>>), LAMBDA cols :
    Try(read_packet(cols.w), LAMBDA e :
    Ret(e.w, Ok([live |-> TRUE, columns |-> Len(cols.r.v),
                 eof |-> FALSE, is_bin |-> is_bin])))))

\* a local file: whether File::open succeeds, how many bytes it holds, and
\* whether the read after the last byte fails with an error other than
\* EndOfFile
File(opens, size, fails) == [opens |-> opens, size |-> size, fails |-> fails]

\* the handle `file` of send_local_infile: how many frames the client had
\* written and how many packets it had read when the handle was opened and
\* when it was dropped
NoHandle == [state |-> "none", wr_open |-> 0, wr_close |-> 0, rd_close |-> 0]

\* the loop over file.read(chunk), chunk being max_allowed_packet bytes long:
\* a packet per read, until EndOfFile
RECURSIVE send_file(_, _, _)
send_file(w, file, off) ==
    IF off >= file.size
    THEN IF file.fails THEN Ret(w, Err("IoError")) ELSE Ret(w, Ok(<<>>))
    ELSE With(Min(file.size - off, w.conn.max_allowed_packet), LAMBDA cnt :
         Try(write_packet(w, <<Slice([kind |-> "file"], off, cnt)>>),
             LAMBDA a : send_file(a.w, file, off + cnt)))

\* the server, which has the whole upload, answers it
AnswerUpload(w, reply) ==
    IF w.srv.phase = "infile" THEN [Serve(w, reply) EXCEPT !.srv.phase = "idle"] ELSE w

\* `file` goes out of scope where send_local_infile returns
drop_file(x) ==
    [x EXCEPT !.w.obs.file = [@ EXCEPT !.state = "closed",
                                       !.wr_close = Len(x.w.conn.stream.wr),
                                       !.rd_close = x.w.obs.nread]]

\* an upload that ends without the empty packet
send_local_infile_unterminated(w, file, reply) ==
    IF ~file.opens THEN Ret(w, Err("IoError"))
    ELSE drop_file(
         Try(send_file([w EXCEPT !.obs.file = [NoHandle EXCEPT !.state = "open"]], file, 0),
             LAMBDA b :
         Try(read_packet(AnswerUpload(b.w, reply)), LAMBDA c :
         IF first_byte(c.r.v) = 0
         THEN TryIo(c.w, OkPacket_from_payload(c.r.v), LAMBDA ok :
              Ret(handle_ok(c.w, ok), Ok(<<>>)))
         ELSE Ret(c.w, Ok(<<>>)))))

send_local_infile(w, file, reply) ==
    IF ~file.opens THEN Ret(w, Err("IoError"))
    ELSE drop_file(
         Try(send_file([w EXCEPT !.obs.file = [NoHandle EXCEPT !.state = "open",
                                                  !.wr_open = Len(w.conn.stream.wr)]],
                       file, 0), LAMBDA a :
         Try(write_packet(a.w, <<>>), LAMBDA b :
         Try(read_packet(AnswerUpload(b.w, reply)), LAMBDA c :
         IF c.r.v = <<>> THEN Ret(c.w, Err("panic"))
         ELSE IF first_byte(c.r.v) = 0
         THEN TryIo(c.w, OkPacket_from_payload(c.r.v), LAMBDA ok :
              Ret(handle_ok(c.w, ok), Ok(<<>>)))
         ELSE Ret(c.w, Ok(<<>>))))))

\* the server, which has the command, answers it with the packets of script
Answer(w, script, phase) ==
    IF w.conn.stream.up /\ w.srv.phase = "idle"
    THEN [Serve(w, script) EXCEPT !.srv.phase = phase, !.srv.sent = 0] ELSE w

query(w, sql, script, phase, file, reply) ==
    Try(write_command_data(w, COM_QUERY, sql), LAMBDA a :
    Try(read_packet(Answer(a.w, script, phase)), LAMBDA b :
    IF b.r.v = <<>> THEN Ret(b.w, Err("panic"))
    ELSE IF first_byte(b.r.v) = 0
    THEN TryIo(b.w, OkPacket_from_payload(b.r.v), LAMBDA ok :
         Ret(handle_ok(b.w, ok), Ok(NoResult)))
    ELSE IF first_byte(b.r.v) = 251
    THEN Try(send_local_infile(b.w, file, reply), LAMBDA u : Ret(u.w, Ok(NoResult)))
    ELSE IF first_byte(b.r.v) = 255
    THEN TryIo(b.w, ErrPacket_from_payload(b.r.v), LAMBDA err :
         Ret(b.w, Err("MySqlError")))
    ELSE read_result_set(b.w, b.r.v, FALSE)))

(***************************************************************************)
(* QueryResult.                                                            *)
(***************************************************************************)
\* Option<MyResult<Vec<Value>>>
None == [some |-> FALSE, ok |-> TRUE, err |-> "", v |-> <<>>]
SomeOk(v) == [some |-> TRUE, ok |-> TRUE, err |-> "", v |-> v]
SomeErr(kind) == [some |-> TRUE, ok |-> FALSE, err |-> kind, v |-> <<>>]

\* what next returns: the world, the QueryResult and the item
NextRet(w, res, item) == [w |-> w, res |-> res, item |-> item]

\* the length below which next takes a packet for an EOF or ERR packet
EofLenLimit == 254

\* the test of the binary branch for the end of the rows
IsBinEnd(first, len) == first = 254 /\ len < EofLenLimit

\* the test of the text branch for the end of the rows
IsTextEnd(first, len) == (first = 254 \/ first = 255) /\ len < EofLenLimit

\* the EOF arm, common to the two branches
next_eof(w, res, pld) ==
    LET p == EOFPacket_from_payload(pld) IN
    IF p.ok THEN NextRet(handle_eof(w, p.v), [res EXCEPT !.eof = TRUE], None)
    ELSE NextRet(w, [res EXCEPT !.eof = TRUE], SomeErr("IoError"))

\* a row arm that does not end the result set when the row does not decode
next_row_goes_on(w, res, v) ==
    IF v.ok THEN NextRet(w, res, SomeOk(v.v)) ELSE NextRet(w, res, SomeErr(v.err))

\* the row arm, common to the two branches
next_row(w, res, v) ==
    IF v.ok THEN NextRet(w, res, SomeOk(v.v))
    ELSE NextRet(w, [res EXCEPT !.eof = TRUE], SomeErr(v.err))

next(w, res) ==
    IF res.eof THEN NextRet(w, res, None)
    ELSE With(read_packet(w), LAMBDA a :
         IF ~a.r.ok THEN NextRet(a.w, [res EXCEPT !.eof = TRUE], SomeErr(a.r.err))
         ELSE IF a.r.v = <<>> THEN NextRet(a.w, res, SomeErr("panic"))
         ELSE IF res.is_bin
         THEN IF IsBinEnd(first_byte(a.r.v), BLen(a.r.v))
              THEN next_eof(a.w, res, a.r.v)
              ELSE next_row(a.w, res, Value_from_bin_payload(a.r.v))
         ELSE IF IsTextEnd(first_byte(a.r.v), BLen(a.r.v))
              THEN IF first_byte(a.r.v) = 254
                   THEN next_eof(a.w, res, a.r.v)
                   ELSE IF ErrPacket_from_payload(a.r.v).ok
                   THEN NextRet(a.w, [res EXCEPT !.eof = TRUE], SomeErr("MySqlError"))
                   ELSE NextRet(a.w, [res EXCEPT !.eof = TRUE], SomeErr("IoError"))
              ELSE next_row(a.w, res, Value_from_payload(a.r.v)))

\* Drop for QueryResult: `for _ in *self {}` calls next until it yields None;
\* an item that is an error does not end the loop, a task failure does
RECURSIVE drop(_, _)
drop(w, res) ==
    With(next(w, res), LAMBDA n :
    IF ~n.item.some \/ n.item.err = "panic" THEN n ELSE drop(n.w, n.res))

(***************************************************************************)
(* prepare                                                                 *)
(***************************************************************************)
\* a read of the definitions that leaves the packet after them unread
read_definitions_without_eof(w, n) ==
    IF n > 0 THEN read_columns(w, n, <<>>) ELSE Ret(w, Ok(<<>>))

\* the column definitions of the parameters or of the columns, and the EOF
\* packet that follows them; nothing is read when there are none
read_definitions(w, n) ==
    IF n > 0
    THEN Try(read_columns(w, n, <<>>), LAMBDA cols :
         Try(read_packet(cols.w), LAMBDA e : Ret(e.w, cols.r)))
    ELSE Ret(w, Ok(<<>>))

prepare(w, sql, script) ==
    Try(write_command_data(w, COM_STMT_PREPARE, sql), LAMBDA a :
    Try(read_packet(Answer(a.w, script, "idle")), LAMBDA b :
    IF b.r.v = <<>> THEN Ret(b.w, Err("panic"))
    ELSE IF first_byte(b.r.v) = 255
    THEN TryIo(b.w, ErrPacket_from_payload(b.r.v), LAMBDA err :
         Ret(b.w, Err("MySqlError")))
    ELSE TryIo(b.w, Stmt_from_payload(b.r.v), LAMBDA st :
         Try(read_definitions(b.w, st.num_params), LAMBDA ps :
         Try(read_definitions(ps.w, st.num_columns), LAMBDA cs :
         Ret(cs.w, Ok(st @@ [params |-> ps.r.v, columns |-> cs.r.v])))))))

(***************************************************************************)
(* Value and execute                                                       *)
(***************************************************************************)
NULL == [t |-> "NULL"]
Bytes(n) == [t |-> "Bytes", n |-> n]
\* Int (the name is taken by the integers)
Int64(x) == [t |-> "Int", x |-> x]
UInt(x) == [t |-> "UInt", x |-> x]
Float(x) == [t |-> "Float", x |-> x]
Date(y, m, d, h, i, sec, u) ==
    [t |-> "Date", y |-> y, m |-> m, d |-> d, h |-> h, i |-> i, s |-> sec, u |-> u]
Time(neg, d, h, i, sec, u) ==
    [t |-> "Time", neg |-> neg, d |-> d, h |-> h, i |-> i, s |-> sec, u |-> u]

\* uint arithmetic wraps; UintSpan stands for 2^64, above every length here
UintSpan == 1073741824
usub(a, b) == IF a >= b THEN a - b ELSE a - b + UintSpan

\* the length of a length-encoded integer
lenenc_len(n) == IF n < 251 THEN 1 ELSE IF n < 65536 THEN 3 ELSE IF n < 16777216 THEN 4 ELSE 9

\* Value::to_bin, the encoded value of parameter i
to_bin(v, i) ==
    LET id == [kind |-> "value", param |-> i, value |-> v] IN
    CASE v.t = "NULL" -> <<>>
      [] v.t = "Bytes" -> Cat(Whole([kind |-> "lenenc", n |-> v.n], lenenc_len(v.n)),
                              Whole([kind |-> "bytes", param |-> i], v.n))
      [] v.t \in {"Int", "UInt", "Float"} -> Whole(id, 8)
      [] v.t = "Date" ->
            IF v.y = 0 /\ v.m = 0 /\ v.d = 0 /\ v.h = 0 /\ v.i = 0 /\ v.s = 0 /\ v.u = 0
            THEN Whole(id, 1)
            ELSE IF v.h = 0 /\ v.i = 0 /\ v.s = 0 /\ v.u = 0 THEN Whole(id, 5)
            ELSE IF v.u = 0 THEN Whole(id, 8)
            ELSE Whole(id, 12)
      [] v.t = "Time" ->
            IF v.d = 0 /\ v.h = 0 /\ v.i = 0 /\ v.s = 0 /\ v.u = 0 THEN Whole(id, 1)
            ELSE IF v.u = 0 THEN Whole(id, 9)
            ELSE Whole(id, 13)

\* Value::to_bin_payload: (NULL-bitmap, values, ids of the fields to send
\* through send_long_data); acc = [bitmap, values, large_ids, written]
RECURSIVE to_bin_values(_, _, _, _)
to_bin_values(values, i, cap, acc) ==
    IF i > Len(values) THEN acc
    ELSE LET value == values[i] IN
         IF value.t = "NULL"
         THEN to_bin_values(values, i + 1, cap, [acc EXCEPT !.bitmap = @ \cup {i - 1}])
         ELSE LET val == to_bin(value, i - 1) IN
              IF BLen(val) < usub(cap, acc.written)
              THEN to_bin_values(values, i + 1, cap,
                                 [acc EXCEPT !.written = @ + BLen(val),
                                             !.values = Cat(@, val)])
              ELSE to_bin_values(values, i + 1, cap,
                                 [acc EXCEPT !.large_ids = Append(@, i - 1)])

to_bin_payload(params, values, max_allowed_packet) ==
    LET bitmap_len == (Len(params) + 7) \div 8
        cap == usub(usub(max_allowed_packet, bitmap_len), Len(values) * 8)
    IN to_bin_values(values, 1, cap,
                     [bitmap |-> {}, values |-> <<>>, large_ids |-> <<>>, written |-> 0])
       @@ [bitmap_len |-> bitmap_len]

\* for chunk in x.chunks(max_allowed_packet - 7): one command per chunk
RECURSIVE send_chunks(_, _, _, _)
send_chunks(w, st, id, chunks) ==
    IF chunks = <<>> THEN Ret(w, Ok(<<>>))
    ELSE Try(write_command_data(w, COM_STMT_SEND_LONG_DATA,
                                Cat(Whole([kind |-> "long_data",
                                           statement_id |-> st.statement_id,
                                           param |-> id], 6),
                                    Head(chunks))),
             LAMBDA a : send_chunks(a.w, st, id, Tail(chunks)))

RECURSIVE send_long_data(_, _, _, _)
send_long_data(w, st, params, ids) ==
    IF ids = <<>> THEN Ret(w, Ok(<<>>))
    ELSE IF params[Head(ids) + 1].t = "Bytes"
    THEN Try(send_chunks(w, st, Head(ids),
                         Chunks(Whole([kind |-> "bytes", param |-> Head(ids)],
                                      params[Head(ids) + 1].n),
                                usub(w.conn.max_allowed_packet, 7))),
             LAMBDA a : send_long_data(a.w, st, params, Tail(ids)))
    ELSE send_long_data(w, st, params, Tail(ids))

\* the COM_STMT_EXECUTE payload after the command byte
execute_payload(st, params, bin) ==
    Whole([kind |-> "execute", statement_id |-> st.statement_id,
           bitmap |-> bin.bitmap,
           types |-> IF st.num_params > 0 THEN [i \in 1..Len(params) |-> params[i].t]
                     ELSE <<>>,
           values |-> bin.values],
          9 + (IF st.num_params > 0
               THEN bin.bitmap_len + 1 + 2 * Len(params) + BLen(bin.values) ELSE 0))

\* the dispatch on the first packet of the answer to COM_STMT_EXECUTE
execute_response(w) ==
    Try(read_packet(w), LAMBDA b :
    IF b.r.v = <<>> THEN Ret(b.w, Err("panic"))
    ELSE IF first_byte(b.r.v) = 0
    THEN TryIo(b.w, OkPacket_from_payload(b.r.v), LAMBDA ok :
         Ret(handle_ok(b.w, ok), Ok(NoResult)))
    ELSE IF first_byte(b.r.v) = 255
    THEN TryIo(b.w, ErrPacket_from_payload(b.r.v), LAMBDA err :
         Ret(b.w, Err("MySqlError")))
    ELSE read_result_set(b.w, b.r.v, TRUE))

\* an execute that sends the long data after the COM_STMT_EXECUTE packet
execute_long_data_last(w, st, params, script, phase) ==
    IF st.num_params # Len(params) % 65536 THEN Ret(w, Err("ParamCountMismatch"))
    ELSE With(IF st.num_params > 0
              THEN to_bin_payload(st.params, params, w.conn.max_allowed_packet)
              ELSE [bitmap |-> {}, values |-> <<>>, large_ids |-> <<>>,
                    written |-> 0, bitmap_len |-> 0],
         LAMBDA bin :
         Try(write_command_data(w, COM_STMT_EXECUTE, execute_payload(st, params, bin)),
             LAMBDA a :
         Try(send_long_data(a.w, st, params, bin.large_ids), LAMBDA l :
             execute_response(Answer(l.w, script, phase)))))

execute(w, st, params, script, phase) ==
    IF st.num_params # Len(params) % 65536 THEN Ret(w, Err("ParamCountMismatch"))
    ELSE With(IF st.num_params > 0
              THEN to_bin_payload(st.params, params, w.conn.max_allowed_packet)
              ELSE [bitmap |-> {}, values |-> <<>>, large_ids |-> <<>>,
                    written |-> 0, bitmap_len |-> 0],
         LAMBDA bin :
         Try(send_long_data(w, st, params, bin.large_ids), LAMBDA l :
         Try(write_command_data(l.w, COM_STMT_EXECUTE, execute_payload(st, params, bin)),
             LAMBDA a : execute_response(Answer(a.w, script, phase)))))

(***************************************************************************)
(* Handshake and connect                                                   *)
(***************************************************************************)
\* the capability flags the client always sets
ClientFlags ==
    {"PROTOCOL_41", "SECURE_CONNECTION", "LONG_PASSWORD", "TRANSACTIONS", "LOCAL_FILES"}

\* a handshake response that asks for a database whether one is named or
\* not
do_handshake_response_with_db(w, hp) ==
    LET opts == w.conn.opts
        client_flags == ClientFlags \cup (w.conn.capability_flags \cap {"LONG_FLAG"})
                        \cup {"CONNECT_WITH_DB"}
        payload_len == 4 + 4 + 1 + 23 + opts.user + 1 + 1 + 20
    IN write_packet(w, Whole([kind |-> "handshake_response", client_flags |-> client_flags,
                              with_db |-> FALSE], payload_len))

do_handshake_response(w, hp) ==
    LET opts == w.conn.opts
        with_db == opts.db_name > 0
        client_flags == ClientFlags \cup (w.conn.capability_flags \cap {"LONG_FLAG"})
                        \cup (IF with_db THEN {"CONNECT_WITH_DB"} ELSE {})
        payload_len == 4 + 4 + 1 + 23 + opts.user + 1 + 1 + 20
                       + (IF with_db THEN opts.db_name + 1 ELSE 0)
    IN write_packet(w, Whole([kind |-> "handshake_response", client_flags |-> client_flags,
                              with_db |-> with_db], payload_len))

do_handshake(w, reply) ==
    Try(read_packet(w), LAMBDA a :
    TryIo(a.w, HandshakePacket_from_payload(a.r.v), LAMBDA hp :
    IF hp.protocol_version # 10 THEN Ret(a.w, Err("UnsupportedProtocol"))
    ELSE IF "PROTOCOL_41" \notin hp.capability_flags
    THEN Ret(a.w, Err("NoProtocol41"))
    ELSE Try(do_handshake_response(handle_handshake(a.w, hp), hp), LAMBDA b :
         Try(read_packet(Answer(b.w, reply, "idle")), LAMBDA c :
         IF c.r.v = <<>> THEN Ret(c.w, Err("panic"))
         ELSE IF first_byte(c.r.v) = 0
         THEN TryIo(c.w, OkPacket_from_payload(c.r.v), LAMBDA ok :
              Ret(handle_ok(c.w, ok), Ok(<<>>)))
         ELSE IF first_byte(c.r.v) = 255
         THEN TryIo(c.w, ErrPacket_from_payload(c.r.v), LAMBDA err :
              Ret(c.w, Err("MySqlError")))
         ELSE Ret(c.w, Err("UnexpectedPacket"))))))

NoFile == File(FALSE, 0, FALSE)

\* the length of format!("SELECT @@{:s};", name)
SysVarSqlLen(name_len) == 10 + name_len

\* the server sends the rows of a result set it has announced
ServeRows(w, rows) ==
    IF w.srv.phase = "rows" THEN [Serve(w, rows) EXCEPT !.srv.phase = "idle"] ELSE w

\* row.shift(): the first value of a row
row_shift(row) == IF "val" \in DOMAIN row THEN row.val ELSE Bytes(row.len)

\* get_system_var: Ok(value) for Some(value), Err("None") for None.  The
\* QueryResult is a temporary of the loop: it is dropped when the function
\* returns.
get_system_var(w, name_len, script, phase, rows) ==
    With(query(w, Whole([kind |-> "sql"], SysVarSqlLen(name_len)),
               script, phase, NoFile, <<>>),
         LAMBDA q :
         IF ~q.r.ok
         THEN Ret(q.w, Err(IF q.r.err = "panic" THEN "panic" ELSE "None"))
         ELSE IF ~q.r.v.live THEN Ret(q.w, Err("None"))
         ELSE With(next(ServeRows(q.w, rows), q.r.v), LAMBDA n :
              IF n.item.err = "panic" THEN Ret(n.w, Err("panic"))
              ELSE With(drop(n.w, n.res), LAMBDA d :
                   IF d.item.err = "panic" THEN Ret(d.w, Err("panic"))
                   ELSE IF n.item.some /\ n.item.ok THEN Ret(d.w, Ok(row_shift(n.item.v)))
                   ELSE Ret(d.w, Err("None")))))

\* a parse that gives 1 where uint::parse_bytes gives None
parse_or_one(g) ==
    IF g.ok /\ g.v.t = "Bytes" /\ "num" \in DOMAIN g.v THEN g.v.num ELSE 1

\* uint::parse_bytes(.., 10).unwrap_or(0) of unwrap_or(NULL).unwrap_bytes_or(vec![])
parse_max_allowed_packet(g) ==
    IF g.ok /\ g.v.t = "Bytes" /\ "num" \in DOMAIN g.v THEN g.v.num ELSE 0

\* a connect that does not look at the connected flag
connect_anew(w, reply, script, phase, rows) ==
    Try(do_handshake(w, reply), LAMBDA h :
    With(get_system_var(h.w, 18, script, phase, rows), LAMBDA g :
    IF g.r.err = "panic" THEN g
    ELSE IF parse_max_allowed_packet(g.r) = 0
    THEN Ret(g.w, Err("NoMaxAllowedPacket"))
    ELSE Ret([g.w EXCEPT !.conn.max_allowed_packet = parse_max_allowed_packet(g.r),
                         !.conn.connected = TRUE],
             Ok(<<>>))))

connect(w, reply, script, phase, rows) ==
    IF w.conn.connected THEN Ret(w, Ok(<<>>))
    ELSE Try(do_handshake(w, reply), LAMBDA h :
         With(get_system_var(h.w, 18, script, phase, rows), LAMBDA g :
         IF g.r.err = "panic" THEN g
         ELSE IF parse_max_allowed_packet(g.r) = 0
         THEN Ret(g.w, Err("NoMaxAllowedPacket"))
         ELSE Ret([g.w EXCEPT !.conn.max_allowed_packet = parse_max_allowed_packet(g.r),
                              !.conn.connected = TRUE],
                  Ok(<<>>))))

(***************************************************************************)
(* What the server may send.                                               *)
(***************************************************************************)
OkA == PktOk(1, 2, 3)
OkB == PktOk(5, 0, 2)
ErrShort == PktErr(11, "ok")
EofHead == PktEof(2)
EofRows == PktEof(34)

Script(script, phase) == [script |-> script, phase |-> phase]

\* a script as the server means it, with the sequence id of its first or
\* its last packet skewed, or cut short (before the first or before the last
\* packet) because the connection went away
Variants(base, phase) ==
    {Script(base, phase)}
    \cup {Script([i \in 1..Len(base) |-> IF i = j THEN Skewed(base[i].p) ELSE base[i]], phase)
          : j \in {1, Len(base)}}
    \cup {Script(SubSeq(base, 1, k), "gone") : k \in {0, Len(base) - 1}}

\* the head of a result-set response with n columns
RECURSIVE Columns(_)
Columns(n) == IF n = 0 THEN <<>> ELSE Append(Columns(n - 1), Sent(PktColumn(n)))

ResultHead(n) == <<Sent(PktColCount(n))>> \o Columns(n) \o <<Sent(EofHead)>>

QueryScripts ==
    Variants(<<Sent(OkA)>>, "idle")
    \cup {Script(<<Sent(OkB)>>, "idle"), Script(<<Sent(ErrShort)>>, "idle"),
          Script(<<Sent(PktInfile)>>, "infile")}
    \cup Variants(ResultHead(1), "rows")

ExecuteScripts ==
    {Script(<<Sent(OkB)>>, "idle"), Script(<<Skewed(OkB)>>, "idle"),
     Script(<<Sent(ErrShort)>>, "idle"), Script(ResultHead(1), "rows"),
     Script(SubSeq(ResultHead(1), 1, 2), "gone")}

\* the answer to COM_STMT_PREPARE for a statement of np parameters, nc columns
PrepareOk(id, np, nc) ==
    <<Sent(PktStmt(id, nc, np))>>
    \o (IF np > 0 THEN Columns(np) \o <<Sent(EofHead)>> ELSE <<>>)
    \o (IF nc > 0 THEN Columns(nc) \o <<Sent(EofHead)>> ELSE <<>>)

PrepareScripts ==
    Variants(PrepareOk(2, 1, 1), "idle")
    \cup {Script(PrepareOk(1, 0, 0), "idle"), Script(PrepareOk(3, 2, 0), "idle"),
          Script(<<Sent(ErrShort)>>, "idle")}

\* row packets: a plain row, a row whose first byte is 0xFE (a value with
\* an 8-byte length prefix), a row that does not decode
TextRows(i) ==
    {PktRow(1, 2, "ok", "err", i), PktRow(254, 9, "ok", "err", i), PktRow(5, 2, "err", "err", i)}

BinRows(i) ==
    {PktRow(0, 10, "ok", "ok", i), PktRow(254, 9, "ok", "ok", i), PktRow(0, 3, "ok", "err", i)}

Rows(is_bin, i) == IF is_bin THEN BinRows(i) ELSE TextRows(i)

\* the packets that end the rows: EOF, or ERR with a short or a long message
Terminators ==
    {EofRows, PktErr(11, "ok"), PktErr(300, "err")}

\* what the server does when the client asks for the next row: it sends a
\* row, ends the rows, or the connection goes away
RowEvents(s, res) ==
    IF s.phase # "rows" \/ res.eof THEN {Script(<<>>, s.phase)}
    ELSE (IF s.sent < MaxRows
          THEN {Script(<<Sent(r)>>, "rows") : r \in Rows(res.is_bin, s.sent + 1)}
               \cup {Script(<<Skewed(PktRow(1, 2, "ok", "ok", s.sent + 1))>>, "rows")}
          ELSE {})
         \cup {Script(<<Sent(t)>>, "idle") : t \in Terminators}
         \cup {Script(<<Skewed(EofRows)>>, "idle"), Script(<<>>, "gone")}

\* what the server still sends of a result set that the client drops
RestEvents(s, res) ==
    IF s.phase # "rows" THEN {Script(<<>>, s.phase)}
    ELSE (IF s.sent < MaxRows
          THEN {Script(<<Sent(r), Sent(EofRows)>>, "idle")
                : r \in Rows(res.is_bin, s.sent + 1)}
          ELSE {})
         \cup {Script(<<Sent(t)>>, "idle") : t \in Terminators}
         \cup {Script(<<Skewed(EofRows)>>, "idle"), Script(<<>>, "gone")}

\* the server sends the packets of an event
Event(w, ev) ==
    [Serve(w, ev.script) EXCEPT !.srv.phase = ev.phase,
                                !.srv.sent = IF ev.phase = "rows" /\ ev.script # <<>>
                                             THEN @ + 1 ELSE @]

\* a server that announced rows to a client that gave up on the response
\* ends them (here: at once)
Settle(x) ==
    IF x.w.srv.phase = "rows" /\ ~(x.r.ok /\ x.r.v.live)
    THEN [x EXCEPT !.w = ServeRows(x.w, <<Sent(EofRows)>>)]
    ELSE x

(***************************************************************************)
(* The connection's life: MyConn::new builds the value and connects; then  *)
(* the caller issues commands, reads rows and drops result sets.           *)
(***************************************************************************)
\* the server's greetings
Greetings ==
    Variants(<<Sent(PktHandshake(10, {"PROTOCOL_41", "LONG_FLAG", "SECURE_CONNECTION"}))>>,
             "idle")
    \cup {Script(<<Sent(PktHandshake(9, {"PROTOCOL_41", "SECURE_CONNECTION"}))>>, "idle"),
          Script(<<Sent(PktHandshake(10, {"LONG_FLAG"}))>>, "idle")}

\* the answers to the handshake response
AuthReplies ==
    Variants(<<Sent(OkA)>>, "idle")
    \cup {Script(<<Sent(ErrShort)>>, "idle"), Script(<<Sent(EofHead)>>, "idle")}

\* the values of @@max_allowed_packet the server may report
SysValue(num) == Bytes(8) @@ [num |-> num]
SysRow(val) == PktRow(8, 9, "ok", "err", 1) @@ [val |-> val]

SysVarScripts ==
    {Script(ResultHead(1), "rows"), Script(<<Sent(ErrShort)>>, "idle")}

SysVarRows ==
    {<<Sent(SysRow(SysValue(1024))), Sent(EofRows)>>,
     <<Sent(SysRow(SysValue(MAX_PAYLOAD_LEN + 1))), Sent(EofRows)>>,
     <<Sent(SysRow(Bytes(3))), Sent(EofRows)>>,
     <<Sent(PktRow(251, 1, "ok", "err", 1) @@ [val |-> NULL]), Sent(EofRows)>>,
     <<Sent(EofRows)>>}

Init ==
    /\ \E g \in Greetings :
          \E w \in {Event([conn |-> NewConn, srv |-> NewSrv, obs |-> NewObs], g)} :
             conn = w.conn /\ srv = w.srv /\ obs = w.obs
    /\ result = NoResult
    /\ stmt = NoStmt
    /\ last = Done("new", Ok(<<>>))
    /\ pc = "new"

\* a QueryResult that holds no borrow of the connection
NeverBorrowed == FALSE

\* a QueryResult borrows the connection (conn: &'a mut MyConn): while it
\* lives, the borrow checker admits no other use of the connection
Borrowed == result.live

\* a call starts: it has written nothing and read nothing yet
Begin(w) ==
    [w EXCEPT !.conn.stream.wr = <<>>, !.obs.cmds = <<>>, !.obs.read_res = "none",
              !.obs.got = <<>>, !.obs.hdr = NoHdr, !.obs.ids = <<>>, !.obs.nread = 0,
              !.obs.file = NoHandle]

\* a command of the caller is counted, and whether the command before it
\* was answered with an ERR packet
Count(w) ==
    [w EXCEPT !.obs.ncmd = @ + 1,
              !.obs.after_err = last.op \in {"query", "prepare", "execute"}
                                /\ last.r.err = "MySqlError",
              !.obs.after_refused = last.op \in {"query", "prepare", "execute"}
                                    /\ last.r.err = "PacketTooLarge"]

\* the task fails (fail!, an index out of bounds): the connection is gone
After(r) == IF r.err = "panic" THEN "panicked" ELSE "ready"

\* MyConn::new: conn.connect().and(Ok(conn))
Connect ==
    /\ pc = "new"
    /\ \E reply \in AuthReplies, sc \in SysVarScripts, rows \in SysVarRows :
          \E x \in {connect(Begin(World), reply.script, sc.script, sc.phase, rows)} :
             /\ conn' = x.w.conn
             /\ srv' = x.w.srv
             /\ obs' = x.w.obs
             /\ last' = Done("connect", x.r) @@ [rows |-> rows]
             /\ pc' = IF x.r.ok THEN "ready" ELSE IF x.r.err = "panic" THEN "panicked"
                      ELSE "closed"
    /\ UNCHANGED <<result, stmt>>

\* connect() called on the connection MyConn::new returned; the server is
\* ready to go through a login once more
Reconnect ==
    /\ pc = "ready" /\ ~Borrowed
    /\ \E reply \in AuthReplies :
          \E x \in {connect(Begin(World), reply.script, ResultHead(1), "rows",
                            <<Sent(SysRow(SysValue(1024))), Sent(EofRows)>>)} :
             /\ conn' = x.w.conn
             /\ srv' = x.w.srv
             /\ obs' = x.w.obs
             /\ last' = Done("connect", x.r)
             /\ pc' = IF x.r.ok THEN "ready" ELSE IF x.r.err = "panic" THEN "panicked"
                      ELSE "closed"
    /\ UNCHANGED <<result, stmt>>

\* lengths of the SQL text of a command
SqlLens == {20, MAX_PAYLOAD_LEN - 1}

\* the local files a LOCAL INFILE request may name
Files ==
    {NoFile, File(TRUE, 0, FALSE), File(TRUE, 1500, FALSE), File(TRUE, 2048, FALSE),
     File(TRUE, MAX_PAYLOAD_LEN, FALSE), File(TRUE, 100, TRUE)}

UploadReplies == {<<Sent(OkB)>>, <<Sent(ErrShort)>>}

Query ==
    /\ pc = "ready" /\ ~Borrowed /\ obs.ncmd < MaxCmds
    /\ \E len \in SqlLens, sc \in QueryScripts, file \in Files, reply \in UploadReplies :
          /\ sc.phase # "infile" => file = NoFile /\ reply = <<Sent(OkB)>>
          /\ len # 20 => sc = Script(<<Sent(OkA)>>, "idle")
          /\ file.size > 2048 => conn.max_allowed_packet >= MAX_PAYLOAD_LEN
          /\ \E x \in {Settle(query(Count(Begin(World)), Whole([kind |-> "sql"], len),
                                    sc.script, sc.phase, file, reply))} :
                /\ conn' = x.w.conn
                /\ srv' = x.w.srv
                /\ obs' = x.w.obs
                /\ result' = IF x.r.ok THEN x.r.v ELSE NoResult
                /\ last' = Done("query", x.r) @@ [file |-> file]
                /\ pc' = After(x.r)
    /\ UNCHANGED stmt

Prepare ==
    /\ pc = "ready" /\ ~Borrowed /\ obs.ncmd < MaxCmds
    /\ \E sc \in PrepareScripts :
          \E x \in {prepare(Count(Begin(World)), Whole([kind |-> "sql"], 20), sc.script)} :
             /\ conn' = x.w.conn
             /\ srv' = x.w.srv
             /\ obs' = x.w.obs
             /\ stmt' = IF x.r.ok THEN x.r.v ELSE stmt
             /\ last' = Done("prepare", x.r)
             /\ pc' = After(x.r)
    /\ UNCHANGED result

\* the parameter lists the caller may bind
ParamLists ==
    {<<>>, <<Bytes(5)>>, <<Bytes(3000)>>, <<NULL, Int64(7)>>, <<Bytes(3000), Bytes(5)>>}

Execute ==
    /\ pc = "ready" /\ ~Borrowed /\ obs.ncmd < MaxCmds
    /\ stmt.prepared
    /\ \E params \in ParamLists, sc \in ExecuteScripts :
          \E x \in {Settle(execute(Count(Begin(World)), stmt, params, sc.script, sc.phase))} :
             /\ conn' = x.w.conn
             /\ srv' = x.w.srv
             /\ obs' = x.w.obs
             /\ result' = IF x.r.ok THEN x.r.v ELSE NoResult
             /\ last' = Done("execute", x.r) @@ [n |-> Len(params)]
             /\ pc' = After(x.r)
    /\ UNCHANGED stmt

\* QueryResult::next, called by the holder of the result set
NextRow ==
    /\ pc = "ready" /\ result.live
    /\ \E ev \in RowEvents(srv, result) :
          \E n \in {next(Event(Begin(World), ev), result)} :
             /\ conn' = n.w.conn
             /\ srv' = n.w.srv
             /\ obs' = n.w.obs
             /\ result' = n.res
             /\ last' = Done("next", n.item)
             /\ pc' = After(n.item)
    /\ UNCHANGED stmt

\* the result set goes out of scope
DropResult ==
    /\ pc = "ready" /\ result.live
    /\ \E ev \in RestEvents(srv, result) :
          \E d \in {drop(Event(Begin(World), ev), result)} :
             /\ conn' = d.w.conn
             /\ srv' = d.w.srv
             /\ obs' = d.w.obs
             /\ last' = Done("drop", d.item)
             /\ pc' = After(d.item)
    /\ result' = NoResult
    /\ UNCHANGED stmt

Next == Connect \/ Reconnect \/ Query \/ Prepare \/ Execute \/ NextRow \/ DropResult

Spec == Init /\ [][Next]_vars

(***************************************************************************)
(* execute on its own: a connection whose max_allowed_packet the server    *)
(* has set, a prepared statement, and parameter lists of every variant.    *)
(***************************************************************************)
\* max_allowed_packet of the connection: limits that leave little room for
\* the values, the server's usual minimum, a limit above MAX_PAYLOAD_LEN
ParamLimits == {24, 32, 1024, MAX_PAYLOAD_LEN + 1}

ParamValues ==
    {NULL, Bytes(0), Bytes(5), Bytes(13), Bytes(40), Int64(7), UInt(7), Float(7),
     Date(2014, 5, 1, 0, 0, 0, 0), Time(FALSE, 1, 2, 3, 4, 5)}

\* a slice of 65536 parameters: params.len() as u16 is 0
ManyParams == [i \in 1 .. 65536 |-> NULL]

\* the parameter lists of 0, 1 and 2 values, and the list of 65536
ValueLists ==
    {<<>>} \cup {<<a>> : a \in ParamValues} \cup (ParamValues \X ParamValues)
    \cup {ManyParams}

InitParams ==
    /\ \E m \in ParamLimits :
          conn = [NewConn EXCEPT !.max_allowed_packet = m, !.connected = TRUE]
    /\ \E n \in 0 .. 2 :
          stmt = [statement_id |-> 1, num_columns |-> 0, num_params |-> n, prepared |-> TRUE,
                  params |-> [i \in 1 .. n |-> PktColumn(i)], columns |-> <<>>]
    /\ result = NoResult
    /\ srv = NewSrv
    /\ obs = NewObs
    /\ last = Done("init", Ok(<<>>))
    /\ pc = "ready"

PaExecute ==
    /\ pc = "ready" /\ last.op = "init"
    /\ \E params \in ValueLists, sc \in ExecuteScripts :
          \E x \in {Settle(execute(Count(Begin(World)), stmt, params, sc.script, sc.phase))} :
             /\ conn' = x.w.conn
             /\ srv' = x.w.srv
             /\ obs' = x.w.obs
             /\ result' = IF x.r.ok THEN x.r.v ELSE NoResult
             /\ last' = Done("execute", x.r)
                         @@ [n |-> Len(params),
                             kinds |-> {params[i].t : i \in 1 .. Min(Len(params), 2)},
                             params |-> SubSeq(params, 1, Min(Len(params), 2))]
             /\ pc' = After(x.r)
    /\ UNCHANGED stmt

NextParams == PaExecute

SpecParams == InitParams /\ [][NextParams]_vars

(***************************************************************************)
(* MyConn::new: the TCP connection, and the UNIX socket it prefers when    *)
(* the server is local.                                                    *)
(***************************************************************************)
\* the world of a connection just built on a stream that opened: the
\* server greets it; socks counts the UnixStream::connect calls so far
Opened(opts, socks, greeting) ==
    Event([conn |-> [NewConn EXCEPT !.opts = opts], srv |-> NewSrv,
           obs |-> NewObs @@ [socks |-> socks]], greeting)

\* the server's side and the file system's side of MyConn::new: the answers
\* on the TCP connection (login, max_allowed_packet, socket) and on the
\* socket (whether it opens, greeting, login, max_allowed_packet)
NewInputs ==
    [reply : {Script(<<Sent(OkA)>>, "idle"), Script(<<Sent(ErrShort)>>, "idle")},
     rows : {<<Sent(SysRow(SysValue(1024))), Sent(EofRows)>>, <<Sent(EofRows)>>},
     svar : SysVarScripts,
     srows : {<<Sent(SysRow(Bytes(15))), Sent(EofRows)>>,
              <<Sent(PktRow(0, 1, "ok", "err", 1) @@ [val |-> Bytes(0)]), Sent(EofRows)>>,
              <<Sent(PktRow(251, 1, "ok", "err", 1) @@ [val |-> NULL]), Sent(EofRows)>>,
              <<Sent(EofRows)>>},
     opens : BOOLEAN,
     greeting : {Script(<<Sent(PktHandshake(10, {"PROTOCOL_41", "LONG_FLAG"}))>>, "idle"),
                 Script(<<Sent(PktHandshake(9, {"PROTOCOL_41"}))>>, "idle")},
     ureply : {Script(<<Sent(OkB)>>, "idle"), Script(<<Sent(ErrShort)>>, "idle")},
     urows : {<<Sent(SysRow(SysValue(MAX_PAYLOAD_LEN + 1))), Sent(EofRows)>>,
              <<Sent(EofRows)>>}]

\* MyConn::new(opts), from the point where the stream that opts names has
\* been asked for; w is the world of the TCP connection when opts has no
\* unix_addr.  Ok("unix") / Ok("tcp") tell which connection is returned.
RECURSIVE MyConn_new(_, _, _)
MyConn_new(w, opts, in) ==
    IF opts.unix_addr > 0
    THEN IF ~in.opens
         THEN Ret([w EXCEPT !.obs.socks = @ + 1], Err("CouldNotConnect"))
         ELSE Try(connect(Begin(Opened(opts, w.obs.socks + 1, in.greeting)), in.ureply.script,
                          ResultHead(1), "rows", in.urows),
                  LAMBDA c : Ret(c.w, Ok("unix")))
    ELSE Try(connect(w, in.reply.script, ResultHead(1), "rows", in.rows), LAMBDA c :
         IF ~(c.w.conn.opts.prefer_socket /\ c.w.conn.opts.tcp_addr = "loopback")
         THEN Ret(c.w, Ok("tcp"))
         ELSE With(get_system_var(c.w, 6, in.svar.script, in.svar.phase, in.srows),
              LAMBDA path :
              IF path.r.err = "panic" THEN path
              ELSE IF ~path.r.ok THEN Ret(path.w, Ok("tcp"))
              ELSE IF path.r.v.t # "Bytes" THEN Ret(path.w, Err("panic"))
              ELSE With(MyConn_new(path.w,
                                   [opts EXCEPT !.unix_addr = path.r.v.n + 1],
                                   [in EXCEPT !.opens = @ /\ path.r.v.n > 0]),
                   LAMBDA u :
                   IF u.r.ok THEN u
                   ELSE Ret([path.w EXCEPT !.obs.socks = u.w.obs.socks], Ok("tcp")))))

\* the options of the caller: a server on the loopback address or elsewhere,
\* with or without a database, preferring the socket or not
NewOpts ==
    {[tcp_addr |-> a, unix_addr |-> 0, prefer_socket |-> p, db_name |-> d] @@ DefaultOpts
     : a \in {"loopback", "remote"}, p \in BOOLEAN, d \in {0, 4}}

InitNew ==
    /\ \E opts \in NewOpts, g \in Greetings \cup
             {Script(<<Sent(PktHandshake(10, {"PROTOCOL_41", "SECURE_CONNECTION"}))>>,
                     "idle")} :
          \E w \in {Opened(opts, 0, g)} :
             conn = w.conn /\ srv = w.srv /\ obs = w.obs
    /\ result = NoResult
    /\ stmt = NoStmt
    /\ last = Done("init", Ok(<<>>))
    /\ pc = "new"

New ==
    /\ pc = "new"
    /\ \E in \in NewInputs :
          \E x \in {MyConn_new(Begin(World), conn.opts, in)} :
             /\ conn' = x.w.conn
             /\ srv' = x.w.srv
             /\ obs' = x.w.obs
             /\ last' = Done("new", x.r) @@ [in |-> in]
             /\ pc' = IF x.r.ok THEN "ready" ELSE IF x.r.err = "panic" THEN "panicked"
                      ELSE "closed"
    /\ UNCHANGED <<result, stmt>>

NextNew == New

SpecNew == InitNew /\ [][NextNew]_vars

(***************************************************************************)
(* Values byte by byte: Value::to_bin as the bytes it writes, the binary   *)
(* decoding of a value of a result row, and Value::into_str.               *)
(***************************************************************************)
\* Bytes(x) with its content
BytesOf(b) == [t |-> "Bytes", n |-> Len(b), b |-> b]

\* write_le_uint_n: x in w bytes, the low byte first
RECURSIVE write_le(_, _)
write_le(x, w) == IF w = 0 THEN <<>> ELSE <<x % 256>> \o write_le(x \div 256, w - 1)

\* write_le_i64: two's complement
write_le_i64(x) ==
    IF x >= 0 THEN write_le(x, 8)
    ELSE [k \in 1..8 |-> 255 - write_le(0 - x - 1, 8)[k]]

\* write_lenenc_int
write_lenenc_int(n) ==
    IF n < 251 THEN <<n>>
    ELSE IF n < 65536 THEN <<252>> \o write_le(n, 2)
    ELSE IF n < 16777216 THEN <<253>> \o write_le(n, 3)
    ELSE <<254>> \o write_le(n, 8)

\* Value::to_bin: the bytes written
to_bin_bytes(v) ==
    LET date_ymd == write_le(v.y, 2) \o <<v.m, v.d>>
        date_his == <<v.h, v.i, v.s>>
        time_dhis == <<IF v.neg THEN 1 ELSE 0>> \o write_le(v.d, 4) \o <<v.h, v.i, v.s>>
    IN
    CASE v.t = "NULL" -> <<>>
      [] v.t = "Bytes" -> write_lenenc_int(Len(v.b)) \o v.b
      [] v.t = "Int" -> write_le_i64(v.x)
      [] v.t \in {"UInt", "Float"} -> write_le(v.x, 8)
      [] v.t = "Date" ->
            IF v.y = 0 /\ v.m = 0 /\ v.d = 0 /\ v.h = 0 /\ v.i = 0 /\ v.s = 0 /\ v.u = 0
            THEN <<0>>
            ELSE IF v.h = 0 /\ v.i = 0 /\ v.s = 0 /\ v.u = 0 THEN <<4>> \o date_ymd
            ELSE IF v.u = 0 THEN <<7>> \o date_ymd \o date_his
            ELSE <<11>> \o date_ymd \o date_his \o write_le(v.u, 4)
      [] v.t = "Time" ->
            IF v.d = 0 /\ v.h = 0 /\ v.i = 0 /\ v.s = 0 /\ v.u = 0 THEN <<0>>
            ELSE IF v.u = 0 THEN <<8>> \o time_dhis
            ELSE <<12>> \o time_dhis \o write_le(v.u, 4)

\* execute: the type and the flag byte it writes for a parameter that is
\* not NULL
param_type(v) ==
    CASE v.t = "Bytes" -> [column_type |-> "VAR_STRING", unsigned |-> FALSE]
      [] v.t = "Int" -> [column_type |-> "LONGLONG", unsigned |-> FALSE]
      [] v.t = "UInt" -> [column_type |-> "LONGLONG", unsigned |-> TRUE]
      [] v.t = "Float" -> [column_type |-> "DOUBLE", unsigned |-> FALSE]
      [] v.t = "Date" -> [column_type |-> "DATE", unsigned |-> FALSE]
      [] v.t = "Time" -> [column_type |-> "TIME", unsigned |-> FALSE]

\* read_le_uint_n
RECURSIVE read_le(_)
read_le(b) == IF b = <<>> THEN 0 ELSE Head(b) + 256 * read_le(Tail(b))

\* read_le_i64
read_le_i64(b) ==
    IF b[8] < 128 THEN read_le(b)
    ELSE 0 - read_le([k \in 1..8 |-> 255 - b[k]]) - 1

\* read_lenenc_int: the value and the bytes it takes
read_lenenc_int(b) ==
    IF b = <<>> THEN [ok |-> FALSE, n |-> 0, w |-> 0]
    ELSE IF b[1] < 251 THEN [ok |-> TRUE, n |-> b[1], w |-> 1]
    ELSE LET w == CASE b[1] = 252 -> 2 [] b[1] = 253 -> 3 [] b[1] = 254 -> 8 [] OTHER -> 0
         IN IF w = 0 \/ Len(b) < 1 + w THEN [ok |-> FALSE, n |-> 0, w |-> 0]
            ELSE [ok |-> TRUE, n |-> read_le(SubSeq(b, 2, 1 + w)), w |-> 1 + w]

\* the binary decoding of one value of a column of the type and signedness
\* given: the value, or an error when the bytes do not make one value
read_bin_value(b, column_type, unsigned) ==
    CASE column_type = "LONGLONG" ->
            IF Len(b) # 8 THEN Err("IoError")
            ELSE IF unsigned THEN Ok(UInt(read_le(b))) ELSE Ok(Int64(read_le_i64(b)))
      [] column_type = "DOUBLE" ->
            IF Len(b) # 8 THEN Err("IoError") ELSE Ok(Float(read_le(b)))
      [] column_type = "VAR_STRING" ->
            LET n == read_lenenc_int(b) IN
            IF ~n.ok \/ Len(b) # n.w + n.n THEN Err("IoError")
            ELSE Ok(BytesOf(SubSeq(b, n.w + 1, Len(b))))
      [] column_type \in {"DATE", "DATETIME", "TIMESTAMP"} ->
            IF b = <<>> \/ b[1] \notin {0, 4, 7, 11} \/ Len(b) # 1 + b[1] THEN Err("IoError")
            ELSE Ok(Date(IF b[1] >= 4 THEN read_le(SubSeq(b, 2, 3)) ELSE 0,
                         IF b[1] >= 4 THEN b[4] ELSE 0,
                         IF b[1] >= 4 THEN b[5] ELSE 0,
                         IF b[1] >= 7 THEN b[6] ELSE 0,
                         IF b[1] >= 7 THEN b[7] ELSE 0,
                         IF b[1] >= 7 THEN b[8] ELSE 0,
                         IF b[1] = 11 THEN read_le(SubSeq(b, 9, 12)) ELSE 0))
      [] column_type = "TIME" ->
            IF b = <<>> \/ b[1] \notin {0, 8, 12} \/ Len(b) # 1 + b[1] THEN Err("IoError")
            ELSE Ok(Time(b[1] >= 8 /\ b[2] = 1,
                         IF b[1] >= 8 THEN read_le(SubSeq(b, 3, 6)) ELSE 0,
                         IF b[1] >= 8 THEN b[7] ELSE 0,
                         IF b[1] >= 8 THEN b[8] ELSE 0,
                         IF b[1] >= 8 THEN b[9] ELSE 0,
                         IF b[1] = 12 THEN read_le(SubSeq(b, 10, 13)) ELSE 0))

\* bit k of a byte
Bit(byte, k) == (byte \div 2 ^ k) % 2 = 1

\* the loop over the columns: NULL for a column whose bit is set in the
\* bitmap, for the others the value the reader decodes at its position (the
\* reader takes 8 bytes for LONGLONG and DOUBLE, a length-encoded string
\* for VAR_STRING, a length byte and so many bytes for dates and times)
RECURSIVE read_bin_values(_, _, _, _, _, _)
read_bin_values(pld, pos, columns, bitmap, bit_offset, values) ==
    LET i == Len(values)
        ty == columns[i + 1]
        str == read_lenenc_int(SubSeq(pld, pos, Len(pld)))
        n == CASE ty.column_type \in {"LONGLONG", "DOUBLE"} -> 8
               [] ty.column_type = "VAR_STRING" -> IF str.ok THEN str.w + str.n ELSE 0
               [] OTHER -> IF pos <= Len(pld) THEN 1 + pld[pos] ELSE 0
    IN
    IF i >= Len(columns) THEN Ok(values)
    ELSE IF Bit(bitmap[(i + bit_offset) \div 8 + 1], (i + bit_offset) % 8)
    THEN read_bin_values(pld, pos, columns, bitmap, bit_offset, Append(values, NULL))
    ELSE IF n = 0 \/ pos + n - 1 > Len(pld) THEN Err("IoError")
    ELSE TryIo(<<>>, read_bin_value(SubSeq(pld, pos, pos + n - 1), ty.column_type, ty.unsigned),
               LAMBDA v : read_bin_values(pld, pos + n, columns, bitmap, bit_offset,
                                          Append(values, v)))

\* a decoder that takes every column for signed
from_bin_payload_signed(pld, columns) ==
    LET bitmap_len == (Len(columns) + 7 + 2) \div 8 IN
    IF Len(pld) < 1 + bitmap_len THEN Err("panic")
    ELSE read_bin_values(pld, 2 + bitmap_len,
                         [i \in 1 .. Len(columns) |-> [columns[i] EXCEPT !.unsigned = FALSE]],
                         SubSeq(pld, 2, 1 + bitmap_len), 2, <<>>)

\* Value::from_bin_payload: pld[i+1] for the bytes of the bitmap fails the
\* task when the payload is shorter than header and bitmap
from_bin_payload(pld, columns) ==
    LET bit_offset == 2
        bitmap_len == (Len(columns) + 7 + bit_offset) \div 8
    IN
    IF Len(pld) < 1 + bitmap_len THEN Err("panic")
    ELSE read_bin_values(pld, 2 + bitmap_len, columns, SubSeq(pld, 2, 1 + bitmap_len),
                         bit_offset, <<>>)

\* str::from_utf8 finds the bytes well formed: sequences of one to four
\* bytes, each a lead byte and its continuation bytes
is_utf8(b) ==
    LET width(c) == IF c < 128 THEN 1
                    ELSE IF c >= 194 /\ c <= 223 THEN 2
                    ELSE IF c >= 224 /\ c <= 239 THEN 3
                    ELSE IF c >= 240 /\ c <= 244 THEN 4
                    ELSE 0
        cont(c) == c >= 128 /\ c <= 191
    IN \A k \in 1 .. Len(b) :
          IF cont(b[k])
          THEN \E j \in 1 .. k - 1 :
                  /\ k - j < width(b[j])
                  /\ \A m \in j + 1 .. k : cont(b[m])
          ELSE /\ width(b[k]) > 0
               /\ k + width(b[k]) - 1 <= Len(b)
               /\ \A m \in k + 1 .. k + width(b[k]) - 1 : cont(b[m])

\* the character of the literals of into_str
Quote == 39

\* s.replace(from, to) for a pattern of one character
RECURSIVE replace(_, _, _)
replace(s, from, to) ==
    IF s = <<>> THEN <<>>
    ELSE IF Len(s) = 1 THEN (IF s[1] = from THEN to ELSE s)
    ELSE replace(SubSeq(s, 1, Len(s) \div 2), from, to)
         \o replace(SubSeq(s, Len(s) \div 2 + 1, Len(s)), from, to)

\* s.append(format!("{:02X}", *c)) for each c of x: two upper-case hex
\* digits for a byte
hex(b) ==
    LET digit(d) == IF d < 10 THEN 48 + d ELSE 55 + d
    IN [k \in 1 .. 2 * Len(b) |-> IF k % 2 = 1 THEN digit(b[(k + 1) \div 2] \div 16)
                                   ELSE digit(b[k \div 2] % 16)]

\* {:u}: decimal digits, and {:0wu}: at least w of them
RECURSIVE dec(_)
dec(x) == IF x < 10 THEN <<48 + x>> ELSE dec(x \div 10) \o <<48 + (x % 10)>>

RECURSIVE pad(_, _)
pad(s, w) == IF Len(s) >= w THEN s ELSE pad(<<48>> \o s, w)

\* Value::into_str; the "\'" of the source is the one character '
into_str(v) ==
    CASE v.t = "NULL" -> <<78, 85, 76, 76>>
      [] v.t = "Bytes" ->
            IF is_utf8(v.b) THEN <<Quote>> \o replace(v.b, Quote, <<Quote>>) \o <<Quote>>
            ELSE <<48, 120>> \o hex(v.b)
      [] v.t = "Int" -> IF v.x < 0 THEN <<45>> \o dec(0 - v.x) ELSE dec(v.x)
      [] v.t = "UInt" -> dec(v.x)
      [] v.t = "Float" -> <<[float |-> v.x]>>
      [] v.t = "Date" ->
            LET ymd == pad(dec(v.y), 4) \o <<45>> \o pad(dec(v.m), 2) \o <<45>> \o pad(dec(v.d), 2)
                his == pad(dec(v.h), 2) \o <<58>> \o pad(dec(v.i), 2) \o <<58>> \o pad(dec(v.s), 2)
            IN IF v.y = 0 /\ v.m = 0 /\ v.d = 0 /\ v.h = 0 /\ v.i = 0 /\ v.s = 0 /\ v.u = 0
               THEN <<Quote, Quote>>
               ELSE IF v.h = 0 /\ v.i = 0 /\ v.s = 0 /\ v.u = 0
               THEN <<Quote>> \o ymd \o <<Quote>>
               ELSE IF v.u = 0 THEN <<Quote>> \o ymd \o <<32>> \o his \o <<Quote>>
               ELSE <<Quote>> \o ymd \o <<32>> \o his \o <<46>> \o pad(dec(v.u), 6) \o <<Quote>>
      [] v.t = "Time" ->
            LET dhis == (IF v.neg THEN <<45>> ELSE <<>>) \o dec(v.d) \o <<32>>
                        \o pad(dec(v.h), 3) \o <<58>> \o pad(dec(v.i), 2) \o <<58>>
                        \o pad(dec(v.s), 2)
            IN IF v.d = 0 /\ v.h = 0 /\ v.i = 0 /\ v.s = 0 /\ v.u = 0 THEN <<Quote, Quote>>
               ELSE IF v.u = 0 THEN <<Quote>> \o dhis \o <<Quote>>
               ELSE <<Quote>> \o dhis \o <<46>> \o pad(dec(v.u), 6) \o <<Quote>>

\* the values encoded: byte strings of every length form explored, integers
\* of both signs, and dates and times with every choice of zero components
BinValues ==
    {BytesOf(b) : b \in {<<>>, <<39>>, <<97, 39, 98>>, <<104, 101>>, <<195, 169>>,
                          <<195>>, <<0, 1, 2, 3, 4, 255>>, <<39, 171>>,
                          [k \in 1..250 |-> k], [k \in 1..251 |-> k],
                          [k \in 1..300 |-> k % 256]}}
    \cup {Int64(x) : x \in {0 - 65537, 0 - 1, 0, 7, 65536}}
    \cup {UInt(x) : x \in {0, 7, 65536}}
    \cup {Float(x) : x \in {0, 7}}
    \cup {Date(y, m, d, h, 0, sec, u) :
             y \in {0, 2014}, m \in {0, 5}, d \in {0, 1}, h \in {0, 23},
             sec \in {0, 59}, u \in {0, 70000}}
    \cup {Time(neg, d, h, 0, sec, u) :
             neg \in BOOLEAN, d \in {0, 1, 300}, h \in {0, 23},
             sec \in {0, 59}, u \in {0, 70000}}

\* the values of the columns of a binary row, when they are not NULL
RowValue ==
    <<BytesOf(<<104, 101>>), Int64(0 - 1), UInt(7), Date(2014, 5, 1, 0, 0, 0, 0),
      Float(7), Time(TRUE, 1, 23, 0, 59, 0), BytesOf(<<>>)>>

\* numbers of columns: with 6 the bitmap is one byte, with 7 it is two
RowWidths == {1, 6, 7}

\* a binary row as the server writes it: the header byte 0, the NULL bitmap
\* with the bit of column i at position i + 2, the values that are not NULL;
\* cuts are the positions of the first byte of each value and of the byte
\* after the last
BinRow(n, nulls) ==
    LET bits(k) == {i \in 0 .. n - 1 : i + 1 \in nulls /\ (i + 2) \div 8 = k}
        RECURSIVE sum(_)
        sum(S) == IF S = {} THEN 0
                  ELSE LET i == CHOOSE x \in S : TRUE IN 2 ^ ((i + 2) % 8) + sum(S \ {i})
        bitmap == [k \in 1 .. (n + 9) \div 8 |-> sum(bits(k - 1))]
        enc(i) == IF i \in nulls THEN <<>> ELSE to_bin_bytes(RowValue[i])
        RECURSIVE cat(_)
        cat(i) == IF i = 0 THEN <<0>> \o bitmap ELSE cat(i - 1) \o enc(i)
    IN [v |-> [i \in 1 .. n |-> IF i \in nulls THEN NULL ELSE RowValue[i]],
        columns |-> [i \in 1 .. n |-> param_type(RowValue[i])],
        pld |-> cat(n),
        cuts |-> [i \in 1 .. n + 1 |-> Len(cat(i - 1)) + 1]]

InitValue ==
    /\ conn = NewConn /\ srv = NewSrv /\ obs = NewObs
    /\ result = NoResult /\ stmt = NoStmt
    /\ \/ /\ \E v \in BinValues : last = [op |-> "value", v |-> v]
          /\ pc = "value"
       \/ /\ \E n \in RowWidths : \E nulls \in SUBSET (1 .. n) : \E cut \in {0, 1} :
                \E row \in {BinRow(n, nulls)} :
                   last = [op |-> "row"] @@
                          [row EXCEPT !.pld = SubSeq(@, 1, Len(@) - cut)]
          /\ pc = "row"

\* Value::to_bin
ToBin ==
    /\ pc = "value"
    /\ last' = [op |-> "to_bin", v |-> last.v, bytes |-> to_bin_bytes(last.v),
                len |-> BLen(to_bin(last.v, 0))]
    /\ pc' = "encoded"
    /\ UNCHANGED <<conn, result, stmt, srv, obs>>

\* the server sends the bytes back as a value of a binary row
ReadBin ==
    /\ pc = "encoded"
    /\ \E ty \in {param_type(last.v)} :
          last' = [op |-> "read_bin", v |-> last.v, bytes |-> last.bytes,
                   back |-> read_bin_value(last.bytes, ty.column_type, ty.unsigned)]
    /\ pc' = "decoded"
    /\ UNCHANGED <<conn, result, stmt, srv, obs>>

\* Value::into_str
IntoStr ==
    /\ pc = "value"
    /\ last' = [op |-> "into_str", v |-> last.v, str |-> into_str(last.v)]
    /\ pc' = "rendered"
    /\ UNCHANGED <<conn, result, stmt, srv, obs>>

\* next hands the payload of a row packet to Value::from_bin_payload
FromBinPayload ==
    /\ pc = "row"
    /\ last' = [last EXCEPT !.op = "from_bin_payload"] @@
                [back |-> from_bin_payload(last.pld, last.columns)]
    /\ pc' = "row_decoded"
    /\ UNCHANGED <<conn, result, stmt, srv, obs>>

NextValue == ToBin \/ ReadBin \/ IntoStr \/ FromBinPayload

SpecValue == InitValue /\ [][NextValue]_vars

(***************************************************************************)
(* The LOCAL INFILE sink (LocalInfile): a buffer of BUFFER_SIZE bytes in   *)
(* front of the connection.  In the runs of SpecInfile the variable conn   *)
(* holds the sink: the bytes of its buffer before the cursor's position,   *)
(* and the connection with the packets it has sent.                        *)
(***************************************************************************)
BUFFER_SIZE == 4096

\* Conn::write_packet: the packet is sent, or the connection reports an
\* error and nothing of the packet counts as sent
conn_write_packet(c, data, sends) ==
    IF sends THEN [c |-> [c EXCEPT !.packets = Append(@, data)], ok |-> TRUE]
    ELSE [c |-> c, ok |-> FALSE]

\* a flush that leaves the position where it was
flush_keeps(s, sends) ==
    IF BLen(s.buffer) > 0 /\ ~conn_write_packet(s.conn, s.buffer, sends).ok
    THEN [s |-> s, r |-> Err("IoError")]
    ELSE [s |-> [s EXCEPT !.conn = IF BLen(s.buffer) > 0
                                   THEN conn_write_packet(s.conn, s.buffer, sends).c
                                   ELSE @],
          r |-> Ok(<<>>)]

\* a flush that sends the buffer even when it is empty
flush_sends_empty(s, sends) ==
    LET sent == conn_write_packet(s.conn, s.buffer, sends)
    IN IF ~sent.ok THEN [s |-> s, r |-> Err("IoError")]
       ELSE [s |-> [s EXCEPT !.conn = sent.c, !.buffer = <<>>], r |-> Ok(<<>>)]

\* io::Write::flush
flush(s, sends) ==
    LET n == BLen(s.buffer)
        sent == conn_write_packet(s.conn, TakeB(s.buffer, n), sends)
    IN IF n > 0 /\ ~sent.ok THEN [s |-> s, r |-> Err("IoError")]
       ELSE [s |-> [s EXCEPT !.conn = IF n > 0 THEN sent.c ELSE @,
                             !.buffer = <<>>],
             r |-> Ok(<<>>)]

\* self.buffer.write(buf): a cursor over the slice takes what fits
cursor_write(s, buf) ==
    LET k == Min(BLen(buf), BUFFER_SIZE - BLen(s.buffer))
    IN [s |-> [s EXCEPT !.buffer = Cat(@, TakeB(buf, k))], r |-> Ok(k)]

\* io::Write::write
write(s, buf, sends) ==
    IF BLen(s.buffer) = BUFFER_SIZE
    THEN LET f == flush(s, sends) IN
         IF ~f.r.ok THEN f ELSE cursor_write(f.s, buf)
    ELSE cursor_write(s, buf)

\* the calls of a handler explored
MaxCalls == 4

\* LocalInfile::new
InitInfile ==
    /\ conn = [buffer |-> <<>>, conn |-> [packets |-> <<>>]]
    /\ obs = [accepted |-> <<>>, calls |-> 0]
    /\ srv = NewSrv /\ result = NoResult /\ stmt = NoStmt
    /\ last = [op |-> "new", r |-> Ok(<<>>)]
    /\ pc = "sink"

\* the handler writes len bytes of the file
InfileWrite ==
    /\ pc = "sink" /\ obs.calls < MaxCalls
    /\ \E len \in {0, 1, 100, BUFFER_SIZE - 1, BUFFER_SIZE, BUFFER_SIZE + 904},
          sends \in BOOLEAN :
          \E buf \in {Whole([kind |-> "file", call |-> obs.calls + 1], len)} :
          \E x \in {write(conn, buf, sends)} :
             /\ conn' = x.s
             /\ obs' = [accepted |-> IF x.r.ok THEN Cat(obs.accepted, TakeB(buf, x.r.v))
                                     ELSE obs.accepted,
                        calls |-> obs.calls + 1]
             /\ last' = [op |-> "write", r |-> x.r]
    /\ UNCHANGED <<result, stmt, srv, pc>>

\* the handler, or the connection when the handler is done, flushes
InfileFlush ==
    /\ pc = "sink" /\ obs.calls < MaxCalls
    /\ \E sends \in BOOLEAN :
          \E x \in {flush(conn, sends)} :
             /\ conn' = x.s
             /\ obs' = [obs EXCEPT !.calls = @ + 1]
             /\ last' = [op |-> "flush", r |-> x.r]
    /\ UNCHANGED <<result, stmt, srv, pc>>

NextInfile == InfileWrite \/ InfileFlush

SpecInfile == InitInfile /\ [][NextInfile]_vars

(***************************************************************************)
(* Drop for QueryResult, one turn of `for _ in *self {}` at a time: the     *)
(* loop calls next, whose read_packet blocks until a frame has arrived or   *)
(* the transport has failed.  The server sends the rest of the rows and the *)
(* packet that ends them; the transport may fail at any time.               *)
(***************************************************************************)
\* what the server sends next of the rows it announced
DrainEvents ==
    (IF srv.sent < MaxRows
     THEN {Script(<<Sent(r)>>, "rows") : r \in Rows(result.is_bin, srv.sent + 1)}
     ELSE {})
    \cup {Script(<<Sent(t)>>, "idle") : t \in Terminators}
    \cup {Script(<<Skewed(EofRows)>>, "idle")}

InitDrain ==
    /\ \E is_bin \in BOOLEAN, seq \in {1, 254}, sent \in 0 .. MaxRows :
          /\ conn = [NewConn EXCEPT !.seq_id = seq, !.connected = TRUE]
          /\ srv = [NewSrv EXCEPT !.seq = seq, !.phase = "rows", !.sent = sent]
          /\ result = [live |-> TRUE, columns |-> 1, eof |-> FALSE, is_bin |-> is_bin]
    /\ obs = NewObs
    /\ stmt = NoStmt
    /\ last = Done("query", Ok(<<>>))
    /\ pc = "draining"

DrainSend ==
    /\ pc = "draining" /\ srv.phase = "rows"
    /\ \E ev \in DrainEvents :
          \E w \in {Event(World, ev)} : conn' = w.conn /\ srv' = w.srv /\ obs' = w.obs
    /\ UNCHANGED <<result, stmt, last, pc>>

\* the transport fails: what has arrived can still be read
DrainBreak ==
    /\ pc = "draining" /\ srv.phase # "gone"
    /\ srv' = [srv EXCEPT !.phase = "gone"]
    /\ UNCHANGED <<conn, obs, result, stmt, last, pc>>

\* one turn of the loop: next, and the loop ends when it yields None
DrainStep ==
    /\ pc = "draining"
    /\ result.eof \/ conn.stream.rd # <<>> \/ srv.phase = "gone"
    /\ \E n \in {next(World, result)} :
          /\ conn' = n.w.conn
          /\ srv' = n.w.srv
          /\ obs' = n.w.obs
          /\ result' = n.res
          /\ last' = Done("next", n.item)
          /\ pc' = IF ~n.item.some THEN "dropped" ELSE (IF n.item.err = "panic" THEN "panicked" ELSE "draining")
    /\ UNCHANGED stmt

NextDrain == DrainSend \/ DrainBreak \/ DrainStep

\* the thread that runs the loop is scheduled whenever its read can
\* return, and the server goes on sending until it has ended the rows
SpecDrain == InitDrain /\ [][NextDrain]_vars /\ WF_vars(DrainStep) /\ WF_vars(DrainSend)


(***************************************************************************)
(* Properties.                                                             *)
(***************************************************************************)
\* the frames a command wrote: positions from..to of what the call wrote
CmdFrames(c) == c.from .. c.to

\* the packet the last read_packet of the call delivered is one whole packet
\* of the server
GotPacket == obs.read_res = "ok" /\ obs.got # <<>> /\ IsWhole(obs.got)

\* C1: every command sets seq_id to 0 before it writes: the first frame of a
\* command (query, prepare, execute, each COM_STMT_SEND_LONG_DATA packet)
\* carries sequence id 0 and starts with the command byte, and every further
\* frame of the command carries the id of the frame before it plus 1.
C1_CommandFramesCountFromZero ==
    \A k \in 1..Len(obs.cmds) :
        LET c == obs.cmds[k] IN
        /\ c.to <= Len(conn.stream.wr)
        /\ \A i \in CmdFrames(c) : conn.stream.wr[i].seq = U8(i - c.from)
        /\ c.to >= c.from => /\ conn.stream.wr[c.from].body # <<>>
                             /\ conn.stream.wr[c.from].body[1].id.first = c.cmd

\* a command of two frames was written (a payload of MAX_PAYLOAD_LEN bytes,
\* which ends with an empty frame), and answered
C1_Witness ==
    /\ last.op = "query" /\ last.r.ok
    /\ \E k \in 1..Len(obs.cmds) :
          /\ obs.cmds[k].to = obs.cmds[k].from + 1
          /\ conn.stream.wr[obs.cmds[k].from].len = MAX_PAYLOAD_LEN
          /\ conn.stream.wr[obs.cmds[k].to].seq = 1

\* C2: read_packet fails with the out-of-sync error exactly when the header
\* it has read carries a sequence id other than seq_id; it then leaves the
\* frame's payload unread and seq_id as it was.
C2_OutOfSyncOnHeader ==
    /\ (obs.read_res = "OutOfSync") <=> (obs.hdr.seq # obs.hdr.expect)
    /\ obs.read_res = "OutOfSync" =>
          /\ conn.seq_id = obs.hdr.expect
          /\ Len(conn.stream.rd) >= Len(obs.hdr.rest)
          /\ SubSeq(conn.stream.rd, 1, Len(obs.hdr.rest)) = obs.hdr.rest

\* a frame of the server with a payload, numbered ahead of seq_id, was met
C2_Witness ==
    /\ obs.read_res = "OutOfSync"
    /\ obs.hdr.seq = U8(obs.hdr.expect + 1)
    /\ obs.hdr.len > 0
    /\ conn.stream.rd # <<>> /\ conn.stream.rd[1].t = "pld"
    /\ conn.stream.rd[1].len = obs.hdr.len

\* C3: a payload written by write_packet and read back by read_packet from
\* the same seq_id comes back byte for byte, every frame written is consumed
\* (the trailing empty frame too), and the reader's seq_id ends where the
\* writer's did.
C3_FramerRoundTrip ==
    pc = "read" =>
        /\ last.r.ok
        /\ last.r.v = last.data
        /\ conn.stream.rd = <<>>
        /\ conn.seq_id = last.seq1

\* a payload of 2 * MAX_PAYLOAD_LEN bytes went through three frames, the
\* last of them empty, with seq_id wrapping around
C3_Witness ==
    /\ pc = "read"
    /\ BLen(last.data) = 2 * MAX_PAYLOAD_LEN
    /\ Len(conn.stream.wr) = 3
    /\ conn.stream.wr[3].len = 0
    /\ last.seq0 = 254 /\ conn.seq_id = 1

\* C4: while a result set that query or execute returned is alive, no command
\* is written on the connection.
C4_OneCommandInFlight ==
    [][result.live => obs'.cmds = <<>> /\ conn'.stream.wr = <<>>]_vars

\* a row was read from a result set that is still alive
C4_Witness ==
    result.live /\ ~result.eof /\ last.op = "next" /\ last.r.some /\ last.r.ok

\* C5: when a result set that is not exhausted is dropped, no read of the
\* drop fails and every row read decodes, everything the server sent of the
\* response, its terminating packet included, has been read when drop returns.
C5_DropDrainsResponse ==
    [][(/\ result.live /\ ~result.eof
        /\ last'.op = "drop" /\ ~last'.r.some
        /\ obs'.read_res = "ok" /\ obs'.got # <<>>
        /\ ~(/\ obs'.got[1].id.kind = "row"
             /\ (IF result.is_bin THEN obs'.got[1].id.bin ELSE obs'.got[1].id.text) # "ok")
        /\ srv'.phase = "idle")
       => conn'.stream.rd = <<>>]_vars

\* C6: once a read has failed with the out-of-sync error or a transport
\* error, no command is written on the connection any more.
C6_BrokenConnectionUnused ==
    [][obs.failed => \A k \in 1..Len(obs'.cmds) : obs'.cmds[k].to < obs'.cmds[k].from]_vars

\* C7: affected_rows and last_insert_id of the connection are those of the
\* most recent OK packet the connection received, whatever else it has
\* received since.
C7_OkFieldsFromLastOk ==
    /\ conn.affected_rows = obs.lastOk.affected_rows
    /\ conn.last_insert_id = obs.lastOk.last_insert_id

\* after the OK of the handshake a second, different OK packet was received,
\* and after that a result set with its columns, a row and its EOF
C7_Witness ==
    /\ conn.affected_rows = 5 /\ conn.last_insert_id = 0
    /\ last.op = "next" /\ ~last.r.some /\ result.eof
    /\ GotPacket /\ obs.got[1].id.kind = "eof"
    /\ srv.sent > 0

\* C8: write_packet refuses a payload (packet too large) exactly when the
\* payload is longer than max_allowed_packet and max_allowed_packet is not
\* MAX_PAYLOAD_LEN; every other payload is written.
C8_TooLargeUnlessLimitIsMax ==
    pc = "written" =>
        LET refuse == /\ BLen(last.data) > conn.max_allowed_packet
                      /\ conn.max_allowed_packet # MAX_PAYLOAD_LEN
        IN /\ refuse <=> (~last.r.ok /\ last.r.err = "PacketTooLarge")
           /\ ~refuse => last.r.ok /\ conn.stream.wr # <<>>

\* C9: in either dialect, when the packet next reads is an ERR packet, next
\* yields the server's error and the result set is over.
C9_ErrEndsResultSet ==
    (last.op = "next" /\ GotPacket /\ obs.got[1].id.kind = "err")
    => (last.r.some /\ ~last.r.ok /\ last.r.err = "MySqlError" /\ result.eof)

\* C10: a packet that starts with 0xFE ends the result set when it is
\* shorter than 9 bytes, and only then: one of 9 bytes or more is a row.
C10_EofOnlyBelowNine ==
    (last.op = "next" /\ GotPacket /\ obs.got[1].id.first = 254)
    => IF obs.got[1].id.len < 9
       THEN ~last.r.some /\ result.eof
       ELSE last.r.some /\ ~(result.eof /\ last.r.ok)

\* the packet p decodes as a row of the dialect of the result set res
Decodes(p, res) == p.kind = "row" /\ (IF res.is_bin THEN p.bin ELSE p.text) = "ok"

\* C11: on a result set that is not over and whose response is aligned, a
\* next reads one packet: a row packet is yielded as that row (the i-th row
\* sent by the i-th call), the EOF packet makes next yield nothing and ends
\* the result set; once it is over, next yields nothing and reads nothing.
C11_NextYieldsRowsInOrder ==
    [][(result.live /\ last'.op = "next" /\ conn.stream.rd = <<>>) =>
         IF result.eof
         THEN ~last'.r.some /\ conn'.stream.rd = <<>> /\ obs'.read_res = "none"
         ELSE /\ (GotPacket' /\ Decodes(obs'.got[1].id, result)) =>
                    /\ last'.r = SomeOk(obs'.got[1].id)
                    /\ last'.r.v.row = srv'.sent
                    /\ ~result'.eof /\ conn'.stream.rd = <<>>
              /\ (GotPacket' /\ obs'.got[1].id.kind = "eof") =>
                    /\ ~last'.r.some
                    /\ result'.eof /\ conn'.stream.rd = <<>>]_vars

\* the ids accepted since the command written last are those of its response
Response == obs.cmds # <<>> /\ obs.ids # <<>>

\* C12 as stated: the id accepted on the first frame of a response is 0 and
\* the ids accepted on its following frames strictly increase.
C12_ResponseIdsFromZero ==
    Response =>
        /\ obs.ids[1].seq = 0
        /\ \A i \in 1 .. Len(obs.ids) - 1 : obs.ids[i].seq < obs.ids[i + 1].seq

\* C12: the id accepted on the first frame of a response is the number of
\* frames of the request (modulo 256), so 1 after a request of one frame;
\* each following frame is accepted with the id of the frame before it,
\* plus 1, plus the number of frames the client wrote in between (modulo
\* 256).
C12_ResponseIdsFollowRequest ==
    Response =>
        LET c == obs.cmds[Len(obs.cmds)] IN
        /\ obs.ids[1].seq = U8(c.to - c.from + 1)
        /\ \A i \in 1 .. Len(obs.ids) - 1 :
              obs.ids[i + 1].seq = U8(obs.ids[i].seq + 1 + obs.ids[i + 1].at - obs.ids[i].at)

\* a response was accepted in which the client wrote frames between two of
\* the frames it read (a LOCAL INFILE upload)
C12_Witness ==
    /\ Response /\ Len(obs.ids) >= 2
    /\ obs.ids[2].at > obs.ids[1].at

\* C13: an execute with a number of parameters other than the statement's
\* num_params returns the parameter-count-mismatch error, writes no packet
\* and leaves seq_id and last_command as they were, whatever the number
\* supplied (65536 and more included).
C13_ParamCountMismatch ==
    [][(last'.op = "execute" /\ last'.n # stmt.num_params) =>
          /\ last'.r = Err("ParamCountMismatch")
          /\ conn'.stream.wr = <<>>
          /\ conn'.seq_id = conn.seq_id
          /\ conn'.last_command = conn.last_command]_vars

\* the COM_STMT_EXECUTE payloads among the frames the call has written
ExecutePackets ==
    {conn.stream.wr[k].body[2].id : k \in {j \in 1 .. Len(conn.stream.wr) :
        /\ Len(conn.stream.wr[j].body) = 2
        /\ conn.stream.wr[j].body[1].id.first = COM_STMT_EXECUTE}}

\* the encoded value of the parameter numbered i is inside the packet e
Inline(e, i) ==
    \E k \in 1 .. Len(e.values) :
        /\ e.values[k].id.kind = "value" /\ e.values[k].id.param = i
        /\ <<e.values[k]>> = to_bin(e.values[k].id.value, i)

\* C14: only Bytes parameters are left out of the COM_STMT_EXECUTE packet
\* for long-data transfer: every parameter of another variant that is not
\* NULL has its encoded value inside the packet.
C14_OnlyBytesAsLongData ==
    \A e \in ExecutePackets :
        \A i \in 1 .. Len(e.types) :
            e.types[i] \notin {"NULL", "Bytes"} => Inline(e, i - 1)

\* the number of packets a block of n definitions takes: the n definitions
\* and the EOF packet after them, or nothing at all when n = 0
BlockLen(n) == IF n > 0 THEN n + 1 ELSE 0

\* C15: when prepare returns a statement, it has read, after the first
\* packet, exactly num_params definitions and one EOF packet (nothing when
\* num_params = 0), then exactly num_columns definitions and one EOF packet
\* (nothing when num_columns = 0); params and columns hold the definitions
\* read, in order, and nothing of the response is left unread.
C15_PrepareReadsDefinitions ==
    (last.op = "prepare" /\ last.r.ok) =>
        LET st == last.r.v IN
        /\ Len(obs.ids) = 1 + BlockLen(st.num_params) + BlockLen(st.num_columns)
        /\ conn.stream.rd = <<>>
        /\ st.params = [i \in 1 .. st.num_params |-> PktColumn(i)]
        /\ st.columns = [i \in 1 .. st.num_columns |-> PktColumn(i)]
        /\ st.num_params + st.num_columns > 0 => GotPacket /\ obs.got[1].id.kind = "eof"

\* prepare returned a statement that has parameters and columns
C15_Witness ==
    /\ last.op = "prepare" /\ last.r.ok
    /\ last.r.v.num_params > 0 /\ last.r.v.num_columns > 0

\* a query went through a LOCAL INFILE upload: after the frames of the
\* command it wrote the upload, which ends with the empty packet, and then
\* read one more packet
Uploaded ==
    /\ last.op = "query" /\ obs.cmds # <<>>
    /\ Len(conn.stream.wr) > obs.cmds[1].to
    /\ conn.stream.wr[Len(conn.stream.wr)].len = 0
    /\ Len(obs.ids) = 2 /\ obs.ids[2].at = Len(conn.stream.wr)
    /\ GotPacket

\* C16: after the empty packet that ends a LOCAL INFILE upload the client
\* reads exactly one packet; when its first byte is 0x00 it is taken as an OK
\* packet and the query succeeds, and when it is anything else (an ERR
\* packet) the query returns an error.
C16_UploadReplyDecides ==
    Uploaded =>
        /\ conn.stream.rd = <<>>
        /\ IF obs.got[1].id.first = 0
           THEN /\ last.r.ok
                /\ conn.affected_rows = obs.got[1].id.affected_rows
                /\ conn.last_insert_id = obs.got[1].id.last_insert_id
           ELSE ~last.r.ok

\* the only packet connect has read is the server's handshake packet
OnlyHandshakeRead ==
    /\ last.op = "connect" /\ GotPacket
    /\ obs.got[1].id.kind = "handshake" /\ Len(obs.ids) = 1

\* the handshake packet that waits to be read by a connection not yet
\* connected, when it is one whole packet numbered 0
Greeting ==
    IF /\ pc = "new" /\ Len(conn.stream.rd) = 2
       /\ conn.stream.rd[1].t = "hdr" /\ conn.stream.rd[1].seq = 0
       /\ conn.stream.rd[2].t = "pld" /\ IsWhole(conn.stream.rd[2].b)
    THEN conn.stream.rd[2].b
    ELSE <<>>

\* C17: when the handshake packet has a protocol_version other than 10 or
\* capability flags without PROTOCOL_41, the handshake fails, no handshake
\* response is written, the connection adopts neither the capability flags
\* nor the status flags, connection id and character set of the packet, and
\* connected stays false.
C17_UnsupportedHandshakeRejected ==
    [][(/\ Greeting # <<>> /\ last'.op = "connect"
        /\ \/ Greeting[1].id.protocol_version # 10
           \/ "PROTOCOL_41" \notin Greeting[1].id.capability_flags)
       => /\ ~last'.r.ok
          /\ last'.r.err = IF Greeting[1].id.protocol_version # 10
                           THEN "UnsupportedProtocol" ELSE "NoProtocol41"
          /\ conn'.stream.wr = <<>>
          /\ conn'.capability_flags = conn.capability_flags
          /\ conn'.status_flags = conn.status_flags
          /\ conn'.connection_id = conn.connection_id
          /\ conn'.character_set = conn.character_set
          /\ ~conn'.connected]_vars

\* a handshake packet of protocol version 10 without PROTOCOL_41 was refused
C17_Witness ==
    /\ OnlyHandshakeRead /\ ~last.r.ok
    /\ obs.got[1].id.protocol_version = 10
    /\ "PROTOCOL_41" \notin obs.got[1].id.capability_flags

\* connect wrote the handshake response, read one packet after it, and
\* went no further (it wrote no command)
ReplyEndedHandshake ==
    /\ last.op = "connect" /\ obs.cmds = <<>>
    /\ Len(conn.stream.wr) = 1
    /\ conn.stream.wr[1].body[1].id.kind = "handshake_response"
    /\ Len(obs.ids) = 2 /\ GotPacket

\* C18: after the handshake response the client reads exactly one packet.
\* When its first byte is 0x00 the handshake succeeds and the packet is taken
\* as an OK packet (connect goes on to its query with the fields of that OK
\* packet adopted); when it is 0xFF the server's error is returned; any
\* other first byte gives the unexpected-packet error.
C18_AuthReplyDecides ==
    /\ ReplyEndedHandshake =>
          /\ obs.got[1].id.first # 0
          /\ ~last.r.ok /\ ~conn.connected
          /\ last.r.err = IF obs.got[1].id.first = 255 THEN "MySqlError"
                          ELSE "UnexpectedPacket"
          /\ conn.stream.rd = <<>>
    /\ (last.op = "connect" /\ obs.cmds # <<>>) =>
          /\ obs.lastOk # NoOk
          /\ obs.cmds[1].from = 2
          /\ conn.stream.wr[1].body[1].id.kind = "handshake_response"

\* the handshake response was answered with a packet that starts neither
\* with 0x00 nor with 0xFF
C18_Witness ==
    /\ ReplyEndedHandshake
    /\ obs.got[1].id.first = 254
    /\ last.r.err = "UnexpectedPacket"

\* the number the rows the server has for SELECT @@max_allowed_packet give:
\* 0 when there is no row, or its value is NULL or is no number
Reported(rows) ==
    IF /\ rows # <<>> /\ "val" \in DOMAIN rows[1].p
       /\ "num" \in DOMAIN rows[1].p.val
    THEN rows[1].p.val.num
    ELSE 0

\* C19: connected becomes true only in a connect whose handshake was
\* answered with OK and whose SELECT @@max_allowed_packet gave a positive
\* number, which is then max_allowed_packet; when the handshake succeeded
\* and the value is missing, NULL or no number, connect fails, connected
\* stays false and max_allowed_packet keeps its value.
C19_ConnectedWithPacketLimit ==
    [][/\ (~conn.connected /\ conn'.connected) =>
             /\ last'.op = "connect" /\ last'.r.ok
             /\ obs'.lastOk # NoOk /\ obs'.cmds # <<>>
             /\ Reported(last'.rows) > 0
             /\ conn'.max_allowed_packet = Reported(last'.rows)
       /\ (last'.op = "connect" /\ ~last'.r.ok) =>
             /\ ~conn'.connected
             /\ conn'.max_allowed_packet = conn.max_allowed_packet
       /\ (last'.op = "connect" /\ obs'.cmds # <<>> /\ Reported(last'.rows) = 0) =>
             /\ ~last'.r.ok
             /\ last'.r.err = "NoMaxAllowedPacket"]_vars

\* the handshake succeeded and the server reported a value that is no number
C19_Witness ==
    /\ last.op = "connect" /\ obs.cmds # <<>> /\ obs.lastOk # NoOk
    /\ last.rows # <<>> /\ "val" \in DOMAIN last.rows[1].p
    /\ last.rows[1].p.val.t = "Bytes" /\ Reported(last.rows) = 0
    /\ ~last.r.ok /\ ~conn.connected

\* C20: connect on a connection that is connected returns success, reads no
\* packet, writes no packet and changes no field of the connection.
C20_ConnectWhenConnected ==
    [][(conn.connected /\ last'.op = "connect") =>
          /\ last'.r = Ok(<<>>)
          /\ conn' = [conn EXCEPT !.stream.wr = <<>>]
          /\ obs'.read_res = "none" /\ obs'.ids = <<>> /\ obs'.cmds = <<>>
          /\ srv' = srv]_vars

\* connect was called on a connection that had since prepared a statement
C20_Witness ==
    /\ last.op = "connect" /\ last.r.ok
    /\ conn.connected /\ stmt.prepared /\ obs.ncmd > 0
    /\ conn.stream.wr = <<>>

\* the socket path the server reports in the rows it has for SELECT
\* @@socket is there and not empty
SocketNamed(in) ==
    /\ in.svar.phase = "rows" /\ Len(in.srows) = 2
    /\ in.srows[1].p.val.t = "Bytes" /\ in.srows[1].p.val.n > 0

\* MyConn::new is called with prefer_socket set and a loopback address, and
\* connect succeeds on the TCP connection
TcpEstablished(in) ==
    /\ pc = "new" /\ conn.opts.prefer_socket /\ conn.opts.tcp_addr = "loopback"
    /\ connect(Begin(World), in.reply.script, ResultHead(1), "rows", in.rows).r.ok

\* C21: when the TCP connection to a loopback address is established with
\* prefer_socket set, MyConn::new returns a connection: the one over the
\* UNIX socket only if the socket opened and connect succeeded on it, and
\* the TCP connection in every other case (no @@socket value, a NULL or
\* empty value, a step of the socket connection failing); UnixStream::connect
\* is called at most once.
C21_SocketOrTcp ==
    [][(last'.op = "new" /\ TcpEstablished(last'.in)) =>
          /\ last'.r.ok
          /\ obs'.socks <= 1
          /\ last'.r.v = "unix" =>
                /\ SocketNamed(last'.in) /\ last'.in.opens /\ obs'.socks = 1
                /\ conn'.connected /\ conn'.opts.unix_addr > 0
                /\ conn'.max_allowed_packet = Reported(last'.in.urows)
          /\ last'.r.v # "unix" =>
                /\ last'.r.v = "tcp"
                /\ conn'.connected /\ conn'.opts.unix_addr = 0
                /\ conn'.max_allowed_packet = Reported(last'.in.rows)]_vars


\* the last command was answered with an ERR packet, the first packet of the
\* response
ErrAnswered ==
    /\ last.op \in {"query", "prepare", "execute"}
    /\ last.r.err = "MySqlError"

\* C22: an ERR packet as the first packet of the response to query, prepare
\* or execute is recoverable: the call has read one packet and nothing of
\* the response is left unread, the connection stays usable, and the next
\* command that is written has its frames numbered from sequence id 0 and
\* judges the first frame header it reads, a header of its own response,
\* against the id that follows its request.
C22_ErrIsRecoverable ==
    /\ [](ErrAnswered =>
            /\ Len(obs.ids) = 1 /\ obs.read_res = "ok"
            /\ conn.stream.rd = <<>> /\ conn.stream.up
            /\ pc = "ready" /\ result = NoResult)
    /\ [][(ErrAnswered /\ obs'.ncmd = obs.ncmd + 1 /\ obs'.cmds # <<>>) =>
             LET c == obs'.cmds[Len(obs'.cmds)] IN
             /\ \A k \in 1 .. Len(obs'.cmds) :
                   obs'.cmds[k].to >= obs'.cmds[k].from =>
                       conn'.stream.wr[obs'.cmds[k].from].seq = 0
             /\ c.to >= c.from =>
                   /\ obs'.hdr = NoHdr => obs'.read_res = "IoError"
                   /\ obs'.ids # <<>> => obs'.ids[1].seq = U8(c.to - c.from + 1)
                   /\ (obs'.ids = <<>> /\ obs'.hdr # NoHdr) =>
                         /\ obs'.read_res = "OutOfSync"
                         /\ obs'.hdr.expect = U8(c.to - c.from + 1)
                         /\ obs'.hdr.seq # obs'.hdr.expect]_vars

\* a query answered with ERR was followed by a query that returned a result
\* set
C22_Witness ==
    /\ obs.after_err /\ obs.ncmd = 2
    /\ last.op = "query" /\ last.r.ok /\ result # NoResult
    /\ obs.ids # <<>> /\ obs.ids[1].seq = 1

\* C23: decoding the bytes to_bin wrote for a value other than NULL, as a
\* value of the column type and signedness execute announces for it, gives
\* the value back, for every Date and Time too (the negative ones and those
\* with some components zero).
C23_BinaryRoundTrip ==
    (pc = "decoded" /\ last.op = "read_bin") =>
        /\ last.back.ok
        /\ last.back.v = last.v

\* a negative Time with microseconds came back
C23_Witness ==
    /\ pc = "decoded" /\ last.op = "read_bin"
    /\ last.v.t = "Time" /\ last.v.neg /\ last.v.d = 300 /\ last.v.u = 70000
    /\ Len(last.bytes) = 13
    /\ last.back.ok /\ last.back.v = last.v

\* a quoted literal whose text no quote of the data can close: between the
\* outer quotes stands the text, every single quote of it preceded by the
\* escape character
Escaped(text) == replace(text, 39, <<92, 39>>)

\* C24: into_str renders a Bytes value that is valid UTF-8 as its text in
\* single quotes, every single quote of the text preceded by an escape
\* character, and a Bytes value that is not valid UTF-8 as 0x followed by
\* two upper-case hex digits for each byte.
C24_IntoStrEscapes ==
    (pc = "rendered" /\ last.v.t = "Bytes") =>
        IF is_utf8(last.v.b)
        THEN last.str = <<Quote>> \o Escaped(last.v.b) \o <<Quote>>
        ELSE /\ Len(last.str) = 2 + 2 * Len(last.v.b)
             /\ SubSeq(last.str, 1, 2) = <<48, 120>>
             /\ \A k \in 1 .. Len(last.v.b) :
                   LET hi == last.str[2 * k + 1]
                       lo == last.str[2 * k + 2]
                       val(c) == IF c <= 57 THEN c - 48 ELSE c - 55
                   IN /\ {hi, lo} \subseteq (48..57) \cup (65..70)
                      /\ 16 * val(hi) + val(lo) = last.v.b[k]

\* the frames of the handshake response among the frames written
ResponseFrames ==
    {k \in 1 .. Len(conn.stream.wr) :
        /\ conn.stream.wr[k].body # <<>>
        /\ conn.stream.wr[k].body[1].id.kind = "handshake_response"}

\* C25: the capability flags of the handshake response contain PROTOCOL_41,
\* SECURE_CONNECTION, LONG_PASSWORD, TRANSACTIONS and LOCAL_FILES;
\* CONNECT_WITH_DB exactly when db_name is not empty, and exactly then the
\* database name and its terminator follow the scramble; LONG_FLAG exactly
\* when the server's handshake offered it; and no other flag.
C25_ResponseFlags ==
    \A k \in ResponseFrames :
        LET id == conn.stream.wr[k].body[1].id
            base == 4 + 4 + 1 + 23 + conn.opts.user + 1 + 1 + 20
        IN /\ {"PROTOCOL_41", "SECURE_CONNECTION", "LONG_PASSWORD", "TRANSACTIONS",
               "LOCAL_FILES"} \subseteq id.client_flags
           /\ "CONNECT_WITH_DB" \in id.client_flags <=> conn.opts.db_name > 0
           /\ id.with_db <=> conn.opts.db_name > 0
           /\ conn.stream.wr[k].len =
                 IF conn.opts.db_name > 0 THEN base + conn.opts.db_name + 1 ELSE base
           /\ "LONG_FLAG" \in id.client_flags <=> "LONG_FLAG" \in conn.capability_flags
           /\ id.client_flags \subseteq
                 {"PROTOCOL_41", "SECURE_CONNECTION", "LONG_PASSWORD", "TRANSACTIONS",
                  "LOCAL_FILES", "CONNECT_WITH_DB", "LONG_FLAG"}

\* a connection with a database name was established with a server that
\* did not offer LONG_FLAG
C25_Witness ==
    /\ last.op = "new" /\ last.r.ok /\ conn.connected
    /\ conn.opts.db_name > 0 /\ "LONG_FLAG" \notin conn.capability_flags
    /\ ResponseFrames = {1}
    /\ "CONNECT_WITH_DB" \in conn.stream.wr[1].body[1].id.client_flags

\* the payloads of the packets, one after the other
RECURSIVE CatAll(_)
CatAll(ps) == IF ps = <<>> THEN <<>> ELSE Cat(Head(ps), CatAll(Tail(ps)))

\* C26: whatever writes and flushes the LOCAL INFILE sink has seen, failed
\* sends included, the payloads of the packets it has sent followed by the
\* bytes in its buffer are the bytes write reported as accepted, in order;
\* and the buffer holds 4096 bytes at most.
C26_SinkKeepsAcceptedBytes ==
    pc = "sink" =>
        /\ Cat(CatAll(conn.conn.packets), conn.buffer) = obs.accepted
        /\ BLen(conn.buffer) <= 4096
        /\ \A k \in 1 .. Len(conn.conn.packets) :
              BLen(conn.conn.packets[k]) \in 1 .. 4096

\* a full buffer was sent by a write, and a later send failed with bytes in
\* the buffer
C26_Witness ==
    /\ pc = "sink" /\ ~last.r.ok
    /\ Len(conn.conn.packets) >= 1 /\ BLen(conn.conn.packets[1]) = 4096
    /\ BLen(conn.buffer) > 0
    /\ BLen(obs.accepted) > 4096

\* C27: seq_id goes up by one modulo 256 with every frame written and every
\* frame read: the frames of a packet carry consecutive ids modulo 256, so 0
\* follows 255, and read_packet accepts each of them, the one numbered 0
\* after 255 too, and ends with the id the writer ended with.
C27_SeqIdWraps ==
    /\ pc \in {"written", "handed", "read"} =>
          /\ \A i \in 1 .. Len(conn.stream.wr) :
                conn.stream.wr[i].seq = (last.seq0 + i - 1) % 256
          /\ last.seq1 = (last.seq0 + Len(conn.stream.wr)) % 256
          /\ last.seq1 \in 0 .. 255
    /\ pc = "read" =>
          /\ last.r.ok /\ obs.read_res = "ok"
          /\ Len(obs.ids) = Len(conn.stream.wr)
          /\ \A i \in 1 .. Len(obs.ids) : obs.ids[i].seq = (last.seq0 + i - 1) % 256
          /\ conn.seq_id = (last.seq0 + Len(obs.ids)) % 256

\* a packet was read whose frames are numbered 255, 0 and 1
C27_Witness ==
    /\ pc = "read" /\ last.r.ok
    /\ Len(obs.ids) = 3
    /\ obs.ids[1].seq = 255 /\ obs.ids[2].seq = 0 /\ obs.ids[3].seq = 1
    /\ conn.seq_id = 2

\* the payloads of the frames written, one after the other
WrittenBodies == CatAll([i \in 1 .. Len(conn.stream.wr) |-> conn.stream.wr[i].body])

\* C28: write_packet writes a payload of L bytes as L div MAX_PAYLOAD_LEN
\* frames of MAX_PAYLOAD_LEN bytes and then one frame of L mod
\* MAX_PAYLOAD_LEN bytes, empty or not; the last frame of a packet is
\* shorter than MAX_PAYLOAD_LEN, and the frames carry the bytes of the
\* payload in their order.
C28_FramesOfAPayload ==
    (pc = "written" /\ last.r.ok) =>
        LET L == BLen(last.data)
            n == Len(conn.stream.wr)
        IN /\ n = L \div MAX_PAYLOAD_LEN + 1
           /\ \A i \in 1 .. n - 1 :
                 /\ conn.stream.wr[i].len = MAX_PAYLOAD_LEN
                 /\ BLen(conn.stream.wr[i].body) = MAX_PAYLOAD_LEN
           /\ conn.stream.wr[n].len = L % MAX_PAYLOAD_LEN
           /\ BLen(conn.stream.wr[n].body) = L % MAX_PAYLOAD_LEN
           /\ conn.stream.wr[n].len < MAX_PAYLOAD_LEN
           /\ WrittenBodies = last.data

\* a payload of MAX_PAYLOAD_LEN bytes was written as a full frame and an
\* empty one
C28_Witness ==
    /\ pc = "written" /\ last.r.ok
    /\ BLen(last.data) = MAX_PAYLOAD_LEN
    /\ Len(conn.stream.wr) = 2
    /\ conn.stream.wr[1].len = MAX_PAYLOAD_LEN /\ conn.stream.wr[2].len = 0

\* C29: execute writes every COM_STMT_SEND_LONG_DATA packet before the
\* COM_STMT_EXECUTE packet, each as a command of its own whose frames are
\* numbered from 0, and reads no packet before the COM_STMT_EXECUTE packet
\* is written: the commands of a call are long-data commands followed by at
\* most one execute command, the last.
C29_LongDataBeforeExecute ==
    last.op = "execute" =>
        /\ \A k \in 1 .. Len(obs.cmds) :
              LET c == obs.cmds[k] IN
              /\ c.cmd \in {COM_STMT_SEND_LONG_DATA, COM_STMT_EXECUTE}
              /\ c.cmd = COM_STMT_EXECUTE => k = Len(obs.cmds)
              /\ c.reads = 0
              /\ c.from = (IF k = 1 THEN 1 ELSE obs.cmds[k - 1].to + 1)
              /\ c.to >= c.from =>
                    /\ conn.stream.wr[c.from].seq = 0
                    /\ conn.stream.wr[c.from].body[1].id.first = c.cmd
        /\ last.r.ok => /\ obs.cmds # <<>>
                        /\ obs.cmds[Len(obs.cmds)].cmd = COM_STMT_EXECUTE
                        /\ obs.cmds[Len(obs.cmds)].to = Len(conn.stream.wr)
        /\ obs.nread > 0 => /\ obs.cmds # <<>>
                            /\ obs.cmds[Len(obs.cmds)].cmd = COM_STMT_EXECUTE

\* a parameter went out in three long-data packets, then the execute packet
\* was written and answered
C29_Witness ==
    /\ last.op = "execute" /\ last.r.ok
    /\ Len(obs.cmds) = 4
    /\ \A k \in 1 .. 3 : obs.cmds[k].cmd = COM_STMT_SEND_LONG_DATA
    /\ obs.cmds[4].cmd = COM_STMT_EXECUTE
    /\ obs.nread > 0

\* the length of a COM_STMT_EXECUTE packet without any value in it: command
\* byte, statement id, flags, iteration count and, for a statement with
\* parameters, the NULL-bitmap, the new-params byte and two bytes per type
ExecuteOverhead(n) == 1 + 4 + 1 + 4 + (IF n > 0 THEN (n + 7) \div 8 + 1 + 2 * n ELSE 0)

\* C30: for parameters that are NULL or Bytes and a max_allowed_packet
\* below MAX_PAYLOAD_LEN that holds the execute header, the NULL-bitmap and
\* the types, the COM_STMT_EXECUTE packet with its command byte is at most
\* max_allowed_packet bytes long, and execute does not fail with the
\* packet-too-large error.
C30_ExecuteFitsLimit ==
    (/\ last.op = "execute" /\ last.n = stmt.num_params
     /\ last.kinds \subseteq {"NULL", "Bytes"}
     /\ conn.max_allowed_packet < MAX_PAYLOAD_LEN
     /\ conn.max_allowed_packet >= ExecuteOverhead(last.n)) =>
        /\ last.r.err # "PacketTooLarge"
        /\ \A k \in 1 .. Len(obs.cmds) :
              obs.cmds[k].cmd = COM_STMT_EXECUTE =>
                 /\ obs.cmds[k].to = obs.cmds[k].from
                 /\ conn.stream.wr[obs.cmds[k].from].len <= conn.max_allowed_packet

\* the frames of the long data of the parameter numbered i, in the order
\* they were written
LongDataFrames(i) ==
    LET T(f) == /\ Len(f.body) >= 2
                /\ f.body[1].id.first = COM_STMT_SEND_LONG_DATA
                /\ f.body[2].id.kind = "long_data" /\ f.body[2].id.param = i
    IN SelectSeq(conn.stream.wr, T)

\* C31: for every parameter execute selects for long data, an empty Bytes
\* value too, at least one COM_STMT_SEND_LONG_DATA packet with the
\* statement's id and the parameter's index is sent, the chunks of these
\* packets one after the other are the parameter's bytes, the execute
\* packet holds none of its value and still holds its type.
C31_LongDataCarriesTheValue ==
    (last.op = "execute" /\ last.n = stmt.num_params /\ last.n > 0) =>
        \A e \in ExecutePackets :
            \A i \in 1 .. Len(last.params) :
                (\E ids \in {to_bin_payload(stmt.params, last.params,
                                             conn.max_allowed_packet).large_ids} :
                    \E j \in 1 .. Len(ids) : ids[j] = i - 1) =>
                    LET fs == LongDataFrames(i - 1) IN
                    /\ Len(fs) >= 1
                    /\ \A k \in 1 .. Len(fs) :
                          /\ fs[k].seq = 0
                          /\ fs[k].body[2].id.statement_id = stmt.statement_id
                    /\ last.params[i].t = "Bytes"
                    /\ CatAll([k \in 1 .. Len(fs) |-> SubSeq(fs[k].body, 3, Len(fs[k].body))])
                          = Whole([kind |-> "bytes", param |-> i - 1], last.params[i].n)
                    /\ \A k \in 1 .. Len(e.values) :
                          "param" \in DOMAIN e.values[k].id => e.values[k].id.param # i - 1
                    /\ Len(e.types) = Len(last.params)
                    /\ e.types[i] = last.params[i].t

\* the frames the client wrote after the frames of its command
UploadFrames == obs.cmds[1].to + 1 .. Len(conn.stream.wr)

\* the length of the payload that ends with frame k of an upload: frames of
\* MAX_PAYLOAD_LEN bytes continue in the frame after them
RECURSIVE PacketLen(_)
PacketLen(k) ==
    conn.stream.wr[k].len
    + (IF k - 1 \in UploadFrames /\ conn.stream.wr[k - 1].len = MAX_PAYLOAD_LEN
       THEN PacketLen(k - 1) ELSE 0)

\* the frames of an upload that end a packet
UploadPackets == {k \in UploadFrames : conn.stream.wr[k].len < MAX_PAYLOAD_LEN}

\* a query opened the file the server asked for, read it to its end and
\* read the server's packet after the upload
UploadDone ==
    /\ last.op = "query" /\ obs.cmds # <<>>
    /\ obs.file.state = "closed" /\ ~last.file.fails
    /\ Len(obs.ids) = 2

\* C32: in a LOCAL INFILE upload the client sends the bytes of the file in
\* their order as packets of at most max_allowed_packet bytes, not empty,
\* and after them exactly one empty packet; the frames carry the sequence
\* ids that follow the id of the server's 0xFB packet, one by one, and the
\* server's final packet is read with the id after the empty packet's.
C32_UploadPackets ==
    UploadDone =>
        LET wr == conn.stream.wr
            n == Len(wr)
        IN /\ UploadFrames # {}
           /\ \A k \in UploadPackets :
                 /\ PacketLen(k) <= conn.max_allowed_packet
                 /\ PacketLen(k) = 0 <=> k = n
           /\ n \in UploadPackets
           /\ CatAll([i \in 1 .. n - 1 - obs.cmds[1].to |-> wr[obs.cmds[1].to + i].body])
                 = Whole([kind |-> "file"], last.file.size)
           /\ \A k \in UploadFrames : wr[k].seq = U8(obs.ids[1].seq + k - obs.cmds[1].to)
           /\ obs.ids[1].at = obs.cmds[1].to /\ obs.ids[2].at = n
           /\ obs.ids[2].seq = U8(wr[n].seq + 1)

\* an upload of a file that took two packets, which the empty packet follows
C32_Witness ==
    /\ UploadDone /\ last.r.ok
    /\ Cardinality(UploadPackets) = 3
    /\ conn.max_allowed_packet = 1024 /\ last.file.size = 1500

\* C33: the handle of the local file is closed before the empty packet that
\* ends the upload is written, and no handle is open when query is not
\* running.
C33_FileClosedBeforeTerminator ==
    /\ obs.file.state # "open"
    /\ (UploadDone /\ conn.stream.wr[Len(conn.stream.wr)].len = 0) =>
          obs.file.wr_close < Len(conn.stream.wr)

\* C34: when query returns after the server asked for a local file, with
\* success or with an error (the file did not open, a read of it failed),
\* the client has written the empty packet that ends the upload and has read
\* the server's packet after it: the server waits for nothing and nothing
\* waits to be read.
C34_UploadAlwaysEnded ==
    (last.op = "query" /\ obs.cmds # <<>>
     /\ (srv.phase = "infile" \/ obs.file.state = "closed")) =>
        /\ Len(conn.stream.wr) > obs.cmds[1].to
        /\ conn.stream.wr[Len(conn.stream.wr)].len = 0
        /\ Len(obs.ids) = 2 /\ obs.ids[2].at = Len(conn.stream.wr)
        /\ srv.phase = "idle" /\ conn.stream.rd = <<>>

\* C35: the loop that drains a dropped result set ends, whatever the rows,
\* once the server has sent the packet that ends them or the transport has
\* failed, and it never fails the task.
C35_DropTerminates == <>(pc = "dropped") /\ [](pc # "panicked")

\* C36: a next that yields nothing or an error (the read failed or was out
\* of sync, the server sent ERR, the packet did not decode) leaves the result
\* set ended, and a next on an ended result set yields nothing, reads no
\* packet, takes nothing from the transport and leaves the result set ended.
C36_NextStaysEnded ==
    [][last'.op = "next" =>
         /\ (pc' # "panicked" /\ (~last'.r.some \/ ~last'.r.ok)) => result'.eof
         /\ result.eof =>
               /\ ~last'.r.some /\ result'.eof
               /\ obs'.nread = 0 /\ obs'.read_res = "none"
               /\ conn'.stream = [conn.stream EXCEPT !.wr = <<>>]
               /\ conn'.seq_id = conn.seq_id]_vars

\* a next on a result set that an earlier next had ended: it yielded nothing
\* and read nothing, although a packet waits on the transport
C36_Witness ==
    /\ last.op = "next" /\ ~last.r.some
    /\ result.live /\ result.eof
    /\ obs.nread = 0 /\ conn.stream.rd # <<>>

\* the last command was refused by write_packet
Refused ==
    /\ last.op \in {"query", "prepare", "execute"}
    /\ last.r.err = "PacketTooLarge"

\* C37: a command whose packet write_packet refuses as too large puts no
\* frame on the transport, reads nothing, leaves the transport as it was and
\* seq_id at the 0 that write_command_data gave it; the next command
\* within the limit has its frames numbered from 0, the first frame of its
\* response is judged against the id after its request, and a query that
\* the server answers with an OK packet so numbered succeeds.
C37_RefusedPacketLeavesNoTrace ==
    /\ [](Refused =>
            /\ \A k \in 1 .. Len(obs.cmds) :
                  obs.cmds[k].cmd # COM_STMT_SEND_LONG_DATA => obs.cmds[k].to < obs.cmds[k].from
            /\ last.op = "query" => conn.stream.wr = <<>>
            /\ conn.seq_id = 0 /\ obs.nread = 0
            /\ pc = "ready" /\ result = NoResult)
    /\ [][Refused' => /\ conn'.stream.rd = conn.stream.rd
                      /\ conn'.stream.up = conn.stream.up]_vars
    /\ [][(Refused /\ obs'.ncmd = obs.ncmd + 1 /\ obs'.cmds # <<>>) =>
             LET c == obs'.cmds[Len(obs'.cmds)] IN
             c.to >= c.from =>
                /\ conn'.stream.wr[c.from].seq = 0
                /\ obs'.ids # <<>> => obs'.ids[1].seq = U8(c.to - c.from + 1)
                /\ (last'.op = "query" /\ GotPacket' /\ obs'.got[1].id.kind = "ok"
                    /\ Len(obs'.ids) = 1) =>
                      /\ last'.r.ok
                      /\ conn'.affected_rows = obs'.got[1].id.affected_rows
                      /\ conn'.stream.rd = <<>>]_vars

\* a query refused as too large was followed by a query within the limit,
\* which the server answered with OK
C37_Witness ==
    /\ obs.after_refused /\ obs.ncmd = 2
    /\ last.op = "query" /\ last.r.ok /\ result = NoResult
    /\ conn.stream.wr # <<>> /\ obs.ids # <<>> /\ obs.ids[1].seq = 1

\* C39: when the packet a next reads is the EOF packet that ends the rows,
\* status_flags becomes the status flags of that packet; when it is a row
\* packet, status_flags, affected_rows and last_insert_id stay as they were.
C39_OnlyEofSetsStatus ==
    [][(result.live /\ ~result.eof /\ last'.op = "next" /\ GotPacket') =>
         /\ obs'.got[1].id.kind = "eof" =>
               conn'.status_flags = obs'.got[1].id.status_flags
         /\ obs'.got[1].id.kind = "row" =>
               /\ conn'.status_flags = conn.status_flags
               /\ conn'.affected_rows = conn.affected_rows
               /\ conn'.last_insert_id = conn.last_insert_id]_vars

\* C38: a binary row that decodes against n columns has n values; value i
\* (from 0) is NULL exactly when bit (i + 2) mod 8 of byte (i + 2) div 8 of
\* the bitmap is set, the bitmap being the (n + 7 + 2) div 8 bytes after the
\* header byte; the values that are not NULL are those the bytes after the
\* bitmap decode to, one after the other in the order of the columns, each
\* by the type and the signedness of its column.
C38_BinaryRowDecoding ==
    (pc = "row_decoded" /\ last.back.ok) =>
        LET n == Len(last.columns)
            bitmap_len == (n + 7 + 2) \div 8
            values == last.back.v
            set(i) == Bit(last.pld[2 + (i + 2) \div 8], (i + 2) % 8)
            \* where the bytes of column i start: after the bytes of the columns
            \* before it, which are empty for those whose bit is set
            from(i) == last.cuts[i + 1]
        IN /\ Len(values) = n
           /\ from(0) = 2 + bitmap_len
           /\ \A i \in 0 .. n - 1 :
                 /\ values[i + 1] = NULL <=> set(i)
                 /\ set(i) => from(i + 1) = from(i)
                 /\ ~set(i) =>
                       Ok(values[i + 1]) =
                          read_bin_value(SubSeq(last.pld, from(i), from(i + 1) - 1),
                                         last.columns[i + 1].column_type,
                                         last.columns[i + 1].unsigned)

\* a row of 7 columns was decoded whose last column, the one with its bit in
\* the second byte of the bitmap, is NULL and whose first two are not
C38_Witness ==
    /\ pc = "row_decoded" /\ last.back.ok
    /\ Len(last.back.v) = 7
    /\ last.back.v[7] = NULL /\ last.back.v[1] # NULL /\ last.back.v[2] = Int64(0 - 1)
    /\ last.pld[3] = 1

\* C40: no packet the LOCAL INFILE sink sends is empty; a flush sends a
\* packet only when the buffer holds a byte or more, and then it sends the
\* buffer; a write sends a packet only when the buffer holds BUFFER_SIZE
\* bytes, and then that packet is BUFFER_SIZE bytes long.
C40_SinkSendsNoEmptyPacket ==
    /\ [](pc = "sink" =>
            \A k \in 1 .. Len(conn.conn.packets) : BLen(conn.conn.packets[k]) >= 1)
    /\ [][pc = "sink" =>
            LET before == conn.conn.packets
                after == conn'.conn.packets
            IN /\ Len(after) \in {Len(before), Len(before) + 1}
               /\ SubSeq(after, 1, Len(before)) = before
               /\ Len(after) > Len(before) =>
                     /\ after[Len(after)] = conn.buffer
                     /\ BLen(conn.buffer) >= 1
                     /\ last'.op = "write" => BLen(conn.buffer) = BUFFER_SIZE]_vars

\* the second call of the sink was a write that found the buffer full and
\* sent it before it took bytes
C40_Witness ==
    /\ pc = "sink" /\ obs.calls = 2 /\ last.op = "write" /\ last.r.ok
    /\ Len(conn.conn.packets) = 1 /\ BLen(conn.conn.packets[1]) = BUFFER_SIZE
    /\ BLen(conn.buffer) >= 1

====
